---- MODULE Spec2Model ----
(***************************************************************************)
(* State-machine model of the fin-agent-ui backend: the query loop of      *)
(* api.py (query_agent), the agent of ai_financial_agent/agent.py, the     *)
(* tool dispatcher and sandbox executor of ai_financial_agent/tools.py,    *)
(* the script synthesizer of script_generator.py and the message store of  *)
(* db/sqlite.py.                                                           *)
(*                                                                         *)
(* Texts are modelled by how they were produced: [text |-> s] is a plain   *)
(* text, [json |-> v] the JSON encoding of v (json.dumps), [repr |-> v]    *)
(* the Python str() of v.  None in a string-typed slot is the string       *)
(* "None"; the absent conversation id is 0.                                *)
(***************************************************************************)
EXTENDS Integers, Sequences, FiniteSets, TLC

VARIABLES
    agent,              \* api.py _agent: TRUE when the global agent exists
    data,               \* agent.data (the loaded DataFrame) or None
    data_file,          \* agent.data_file or None
    messages,           \* agent.messages
    conversations,      \* rows of table conversations (their ids)
    message_rows,       \* rows of table messages, in id order
    script_file,        \* generated_scripts/analysis_script.py or None
    requirements_file,  \* generated_scripts/script_requirements.txt
    temp_dirs,          \* temporary directories that exist on disk
    pc,                 \* position of the request being served
    conversation_id,    \* query_agent: conversation_id
    agent_response,     \* query_agent: agent_response
    tool_call_count,    \* query_agent: tool_call_count
    tool_results,       \* query_agent: tool_results
    batch_pos,          \* query_agent: position of the for loop in the batch
    args,               \* query_agent: args of the tool call being dispatched
    run,                \* locals of run_script / execute_standalone_script
    responder,          \* the scripted model answering the present query
    last_return,        \* what the last request returned to its caller
    obs                 \* observations of the run (history, not program state)

vars == <<agent, data, data_file, messages, conversations, message_rows,
          script_file, requirements_file, temp_dirs, pc, conversation_id,
          agent_response, tool_call_count, tool_results, batch_pos, args,
          run, responder, last_return, obs>>

None == "None"
\* None in a slot that otherwise holds a record
Null == [null |-> TRUE]
NoConversation == 0
max_tool_calls == 5
MaxQueries == 2

\* ------------------------------------------------------------------ texts

Text(s) == [text |-> s]
JsonDumps(v) == [json |-> v]
Str(v) == [repr |-> v]
IsJson(t) == "json" \in DOMAIN t
JsonLoads(t) == t.json

APOLOGY_REQUEST == "I'm having trouble processing your request. Please try again."
APOLOGY_TOOL == "I'm having trouble processing the tool response. Please try again."

\* --------------------------------------------------------- message store

\* DatabaseManager.create_conversation: the id is the rowid SQLite gives an
\* INTEGER PRIMARY KEY column, one more than the largest id in the table.
CreateConversationId(convs) ==
    IF convs = {} THEN 1
    ELSE (CHOOSE m \in convs : \A c \in convs : c <= m) + 1

Field(message, key) == IF key \in DOMAIN message THEN message[key] ELSE None

\* DatabaseManager.save_message: the row inserted for a message.
MessageRow(cid, message) ==
    LET message_type == IF "type" \in DOMAIN message THEN message.type ELSE "message"
    IN  [conversation_id |-> cid,
         message_type |-> message_type,
         content |-> CASE message_type = "message" -> message.content
                       [] message_type = "function_call" -> message.arguments
                       [] message_type = "function_call_output" -> message.output
                       [] OTHER -> JsonDumps(message),
         role |-> IF message_type = "message" THEN Field(message, "role") ELSE None,
         call_id |-> IF message_type \in {"function_call", "function_call_output"}
                     THEN Field(message, "call_id") ELSE None,
         function_name |-> IF message_type = "function_call"
                           THEN Field(message, "name") ELSE None,
         extra_data |-> IF "extra_data" \in DOMAIN message
                        THEN message.extra_data ELSE Null]

\* An insert that reuses the id of the newest row and so replaces it.
SaveMessage_Replace(rows, cid, message) ==
    IF rows = <<>> THEN <<MessageRow(cid, message)>>
    ELSE [rows EXCEPT ![Len(rows)] = MessageRow(cid, message)]

SaveMessage(rows, cid, message) == Append(rows, MessageRow(cid, message))

\* DatabaseManager.get_messages: the rows of a conversation, ORDER BY id.
GetMessages(rows, cid) ==
    SelectSeq(rows, LAMBDA r : r.conversation_id = cid)

\* DatabaseManager.get_messages_for_openai: only rows of type "message".
GetMessagesForOpenai(rows, cid) ==
    LET kept == SelectSeq(GetMessages(rows, cid),
                          LAMBDA r : r.message_type = "message")
    IN  [i \in 1..Len(kept) |-> [role |-> kept[i].role, content |-> kept[i].content]]

\* ------------------------------------------------------- the model's side

CallId(n) == "call_" \o ToString(n)

FunctionCall(n, name, arguments) ==
    [type |-> "function_call", call_id |-> CallId(n), name |-> name,
     arguments |-> arguments]

OutputMessage(s) == [type |-> "message", text |-> s]

\* A JSON object is the record of its members; {} is the empty record.
NoArgs == [k \in {} |-> k]
Keys(obj) == DOMAIN obj

\* The csv files of the datasets directory, and those of them that
\* pd.read_csv cannot read.
DatasetFiles == {"prices.csv", "corrupt.csv"}
UnreadableFiles == {"corrupt.csv"}

Call(name, arguments) == [name |-> name, arguments |-> arguments]
ListCall == Call("get_dataset_list", JsonDumps(NoArgs))
LoadCall(f) == Call("load_dataset", JsonDumps([filename |-> f]))
PreviewCall == Call("get_data_preview", JsonDumps(NoArgs))
InfoCall == Call("get_data_info", JsonDumps(NoArgs))
RunCall == Call("run_script", JsonDumps([analysis_request |-> "average price"]))
UnknownCall == Call("plot_chart", JsonDumps(NoArgs))
\* arguments that are not JSON, and arguments that do not fit the parameters
MalformedCall == Call("load_dataset", Text("{\"filename\": "))
MismatchCall == Call("load_dataset", JsonDumps([file |-> "prices.csv"]))

Fails == [kind |-> "fail", error |-> "Connection error."]
Answers(text) == [kind |-> "envelope", text |-> text, calls |-> <<>>]
Requests(text, calls) == [kind |-> "envelope", text |-> text, calls |-> calls]

\* The scripted model responders: a responder answers the k-th request of a
\* query with its k-th element, and repeats its last element from then on.
Responders ==
    {<<Answers("The average price is 101.5")>>,
     <<Answers("")>>,
     <<Fails>>,
     <<Requests("", <<ListCall>>)>>,
     <<Requests("Let me check.", <<ListCall>>), Answers("One dataset is available.")>>,
     <<Requests("", <<PreviewCall>>), Fails>>,
     <<Requests("", <<LoadCall("prices.csv"), RunCall>>), Answers("The average price is 101.5")>>,
     <<Requests("", <<RunCall>>), Requests("", <<InfoCall>>), Answers("Done.")>>,
     <<Requests("", <<LoadCall("missing.csv"), UnknownCall>>), Answers("Not found.")>>,
     <<Requests("", <<ListCall, MalformedCall>>)>>,
     <<Requests("", <<LoadCall("prices.csv"), LoadCall("corrupt.csv"), PreviewCall>>),
       Answers("Loaded.")>>,
     <<Requests("", <<MismatchCall>>)>>,
     <<Requests("", <<ListCall>>), Requests("", <<ListCall>>),
       Requests("", <<ListCall>>), Requests("", <<ListCall>>),
       Requests("", <<ListCall>>), Answers("One dataset is available.")>>}

Scripted(script, k) ==
    script[IF k <= Len(script) THEN k ELSE Len(script)]

\* The response object the client returns for a scripted element; n is the
\* number of calls the model has emitted so far (call ids are all distinct).
Response(element, n) ==
    [usage |-> [total_tokens |-> "1234"],
     output_text |-> element.text,
     output |-> (IF element.text = "" THEN <<>> ELSE <<OutputMessage(element.text)>>)
                \o [i \in 1..Len(element.calls) |->
                      FunctionCall(n + i, element.calls[i].name,
                                   element.calls[i].arguments)]]

\* -------------------------------------------------------------- the agent

\* AIFinancialAgent.process_user_input / handle_tool_response, the
\* non-streamed branch: the function calls of the response, in output order.
\* The function calls collected newest first.
FinalToolCalls_Reversed(response) ==
    LET calls == SelectSeq(response.output, LAMBDA item : item.type = "function_call")
    IN  [i \in 1..Len(calls) |-> calls[Len(calls) + 1 - i]]

FinalToolCalls(response) ==
    SelectSeq(response.output, LAMBDA item : item.type = "function_call")

AgentResponse(response) ==
    [final_tool_calls |-> FinalToolCalls(response),
     needs_tool_call |-> \E i \in 1..Len(FinalToolCalls(response)) :
                            FinalToolCalls(response)[i].type = "function_call",
     output_text |-> response.output_text,
     token_usage |-> response.usage]

\* An error response that asks for the loop to go on: the request is retried.
ErrorResponse_Retry(apology, e) ==
    [needs_tool_call |-> TRUE, output_text |-> apology, error |-> e,
     token_usage |-> Null]

ErrorResponse(apology, e) ==
    [needs_tool_call |-> FALSE, output_text |-> apology, error |-> e,
     token_usage |-> Null]

\* if output_text: self.messages.append({"role": "assistant", ...})
AppendAssistant(msgs, output_text) ==
    IF output_text # ""
    THEN Append(msgs, [role |-> "assistant", content |-> Text(output_text)])
    ELSE msgs

\* -------------------------------------------------- the script synthesizer

\* The synthesizer's response text is the sequence of its tokens: the marker
\* "PACKAGES:", blanks, newlines, commas, code fences, names and code lines.
Whitespace == {" ", "\n"}

Find(t, tok) ==
    IF \E i \in 1..Len(t) : t[i] = tok
    THEN CHOOSE i \in 1..Len(t) : t[i] = tok /\ \A j \in 1..(i - 1) : t[j] # tok
    ELSE 0

\* str.strip()
Strip(t) ==
    LET keep == {i \in 1..Len(t) : t[i] \notin Whitespace}
    IN  IF keep = {} THEN <<>>
        ELSE SubSeq(t, CHOOSE i \in keep : \A j \in keep : i <= j,
                       CHOOSE i \in keep : \A j \in keep : j <= i)

\* str.split(sep)[0]
UpTo(t, sep) == IF Find(t, sep) = 0 THEN t ELSE SubSeq(t, 1, Find(t, sep) - 1)

\* str.split(sep)
RECURSIVE Split(_, _)
Split(t, sep) ==
    IF Find(t, sep) = 0 THEN <<t>>
    ELSE <<SubSeq(t, 1, Find(t, sep) - 1)>>
         \o Split(SubSeq(t, Find(t, sep) + 1, Len(t)), sep)

IsPrefix(pat, t) == Len(pat) <= Len(t) /\ SubSeq(t, 1, Len(pat)) = pat

\* str.replace(pat, "")
RECURSIVE Remove(_, _)
Remove(t, pat) ==
    IF t = <<>> \/ pat = <<>> THEN t
    ELSE IF IsPrefix(pat, t) THEN Remove(SubSeq(t, Len(pat) + 1, Len(t)), pat)
    ELSE <<Head(t)>> \o Remove(Tail(t), pat)

\* "".join(tokens)
RECURSIVE Join(_)
Join(t) == IF t = <<>> THEN "" ELSE Head(t) \o Join(Tail(t))

DefaultPackages == <<"numpy", "pandas", "matplotlib">>

\* generate_script, lines 21-32: what it returns for a response text.
PackagesLine(output_text) ==
    Strip(UpTo(UpTo(SubSeq(output_text, Find(output_text, "PACKAGES:") + 1,
                           Len(output_text)), "PACKAGES:"), "\n"))

\* The text stripped also when it declares no packages.
ParseScript_StripsAll(output_text) ==
    IF Find(output_text, "PACKAGES:") # 0
    THEN LET packages_line == PackagesLine(output_text)
             names == Split(packages_line, ",")
         IN  [script |-> Strip(Remove(output_text,
                                      <<"PACKAGES:", " ">> \o packages_line \o <<"\n">>)),
              packages |-> [i \in 1..Len(names) |-> Join(Strip(names[i]))]]
    ELSE [script |-> Strip(output_text), packages |-> DefaultPackages]

ParseScript(output_text) ==
    IF Find(output_text, "PACKAGES:") # 0
    THEN LET packages_line == PackagesLine(output_text)
             names == Split(packages_line, ",")
         IN  [script |-> Strip(Remove(output_text,
                                      <<"PACKAGES:", " ">> \o packages_line \o <<"\n">>)),
              packages |-> [i \in 1..Len(names) |-> Join(Strip(names[i]))]]
    ELSE [script |-> output_text, packages |-> DefaultPackages]

\* The markdown code fence (three backquotes), bare and with the python marker.
FENCE == "[fence]"
FENCE_PYTHON == "[fence]python"

\* Tools._clean_script
CleanScript(script) == Strip(Remove(Remove(script, <<FENCE_PYTHON>>), <<FENCE>>))

\* What the synthesizer's request to the model may come back with.
SynthFails == [failed |-> TRUE]
SynthText(t) == [failed |-> FALSE, output_text |-> t]
SynthResponses ==
    {SynthFails,
     SynthText(<<>>),
     SynthText(<<"PACKAGES:", " ", "pandas", "\n">>),
     SynthText(<<"PACKAGES:", " ", "pandas", "\n", "print(result)">>),
     SynthText(<<FENCE_PYTHON, "\n", "print(df.describe())", "\n", FENCE>>)}

\* ------------------------------------------------------------- the tools

Catalogue ==
    {"get_dataset_list", "load_dataset", "get_data_preview", "get_data_info",
     "run_script"}

\* The parameters of each handler.
Params(name) ==
    CASE name = "load_dataset" -> {"filename"}
      [] name = "run_script" -> {"analysis_request", "conversation_id"}
      [] OTHER -> {}

\* A call of a handler binds when its keywords are exactly the parameters.
Accepts(name, keywords) == keywords = Params(name)

\* call_function: handler(**tool_args), run_script being given
\* conversation_id as one more keyword.
Binds(name, tool_args) ==
    \/ name \notin Catalogue
    \/ /\ name # "run_script"
       /\ Accepts(name, Keys(tool_args))
    \/ /\ name = "run_script"
       /\ "conversation_id" \notin Keys(tool_args)
       /\ Accepts(name, Keys(tool_args) \cup {"conversation_id"})

\* FinancialAnalyzer.load_data
ReadCsv(file_path) == "DataFrame(" \o file_path \o ")"

Error(message) == [status |-> "error", message |-> message]

GetDatasetList == [status |-> "success", datasets |-> DatasetFiles]

LoadDatasetFound(filename) == filename \in DatasetFiles

\* pd.read_csv raises on a file it cannot parse.
READ_ERROR == "Error tokenizing data."
ReadCsvRaises(filename) == filename \in UnreadableFiles

\* The dataset context assigned although the file is missing or unreadable.
LoadDatasetAssigns_Unguarded(filename) == TRUE

\* load_dataset, lines 124-129: agent.data and agent.data_file are assigned
\* only after the file was found and read.
LoadDatasetAssigns(filename) ==
    LoadDatasetFound(filename) /\ ~ReadCsvRaises(filename)

LoadDataset(filename) ==
    IF ~LoadDatasetFound(filename)
    THEN Error("File 'datasets/" \o filename \o "' not found!")
    ELSE IF ReadCsvRaises(filename)
    THEN Error("Error loading dataset: " \o READ_ERROR)
    ELSE [status |-> "success", filename |-> filename, shape |-> <<2, 2>>,
          columns |-> <<"date", "price">>, preview |-> "head(10)"]

\* run_script without its test for a loaded dataset.
NoDatasetLoaded_Skipped(d) == FALSE

\* if self.agent.data is None
NoDatasetLoaded(d) == d = None

\* A preview that does not ask whether a dataset is loaded.
GetDataPreview_Unchecked(d, f) ==
    [status |-> "success", filename |-> f, preview |-> "head()"]

GetDataPreview(d, f) ==
    IF NoDatasetLoaded(d) THEN Error("No dataset loaded yet.")
    ELSE [status |-> "success", filename |-> f, preview |-> "head()"]

GetDataInfo(d, f) ==
    IF NoDatasetLoaded(d) THEN Error("No dataset loaded yet.")
    ELSE [status |-> "success", filename |-> f, shape |-> <<2, 2>>,
          columns |-> <<"date", "price">>, dtypes |-> "dtypes",
          summary |-> "describe()"]

SCRIPT_PATH == "generated_scripts/analysis_script.py"
REQUIREMENTS_PATH == "generated_scripts/script_requirements.txt"

NoFile == [exists |-> FALSE]
File(content) == [exists |-> TRUE, content |-> content]

\* A file opened for appending: what it held stays in front.
WriteFile_Append(old, content) ==
    IF old.exists THEN File(old.content \o content) ELSE File(content)

\* run_script, lines 192-200: open(path, "w") truncates the file, so it
\* holds what this call writes and nothing of what it held before.
WriteFile(old, content) == File(content)

\* execute_standalone_script: the result of each exit path.
\* A script that printed nothing taken for a failed one.
ScriptSucceeded_EmptyIsError(stdout) ==
    IF stdout = ""
    THEN [status |-> "error", output |-> stdout, message |-> "Script produced no output"]
    ELSE [status |-> "success", output |-> stdout, message |-> "Script executed successfully"]

ScriptSucceeded(stdout) ==
    [status |-> "success", output |-> stdout, message |-> "Script executed successfully"]
ScriptFailed(stderr) ==
    [status |-> "error", output |-> stderr,
     message |-> "Script execution failed: " \o stderr]
InstallFailed(stderr) ==
    Error("Failed to install required packages: " \o stderr)
ExecuteFailed(e) == Error("Failed to execute script: " \o e)

\* execute_standalone_script, lines 265-276
ExecutionResult(returncode, stdout, stderr) ==
    IF returncode = 0 THEN ScriptSucceeded(stdout) ELSE ScriptFailed(stderr)

\* run_script, lines 204-212
RunScriptResult(script, required_packages, execution_result) ==
    [status |-> IF execution_result.status = "success" THEN "success" ELSE "error",
     script |-> script,
     required_packages |-> required_packages,
     script_path |-> SCRIPT_PATH,
     requirements_path |-> REQUIREMENTS_PATH,
     execution_result |-> execution_result,
     message |-> execution_result.message]

\* A dispatcher that cuts a failed run down to a status and a fixed message.
RunScriptOutput_TerseOnError(tool_output) ==
    IF tool_output.status = "success" /\ "output" \in DOMAIN tool_output
    THEN [status |-> "executed", message |-> tool_output.output]
    ELSE IF tool_output.status = "error"
    THEN [status |-> "error", message |-> "Script execution failed"]
    ELSE tool_output

\* call_function, lines 96-105: what is returned for run_script's output.
RunScriptOutput(tool_output) ==
    IF tool_output.status = "success" /\ "output" \in DOMAIN tool_output
    THEN [status |-> "executed", message |-> tool_output.output]
    ELSE tool_output

\* An error that does not say which tool was asked for.
UnknownTool_Unnamed(tool_name) == Error("Unknown tool")

\* call_function, line 107
UnknownTool(tool_name) == Error("Unknown tool: " \o tool_name)

\* ------------------------------------------------------------ the state

NoRun == [active |-> FALSE]
NoResponse == [needs_tool_call |-> FALSE, output_text |-> "", token_usage |-> Null]

Init ==
    /\ agent = FALSE
    /\ data = None
    /\ data_file = None
    /\ messages = <<>>
    /\ conversations = {}
    /\ message_rows = <<>>
    /\ script_file = NoFile
    /\ requirements_file = NoFile
    /\ temp_dirs = {}
    /\ pc = "idle"
    /\ conversation_id = NoConversation
    /\ agent_response = NoResponse
    /\ tool_call_count = 0
    /\ tool_results = <<>>
    /\ batch_pos = 0
    /\ args = NoArgs
    /\ run = NoRun
    /\ responder = <<>>
    /\ last_return = [status_code |-> 0]
    /\ obs = [n_queries |-> 0, n_requests |-> 0, n_calls |-> 0, n_dirs |-> 0,
              always_tools |-> FALSE, failed_at |-> 0, dispatched_at_failure |-> 0,
              fault |-> "none", rows_mark |-> 0, msgs_mark |-> 0,
              synth_requests |-> 0, installs |-> 0, install_failed |-> FALSE,
              spawns |-> 0, spawned |-> FALSE, execution_result |-> Null,
              limit_logged |-> FALSE, returncode |-> 0, stdout |-> "",
              venvs |-> <<>>, stale |-> {}]

Http(status_code) == [status_code |-> status_code]

ToolCalls == IF "final_tool_calls" \in DOMAIN agent_response
             THEN agent_response.final_tool_calls ELSE <<>>

\* ---------------------------------------------- get_agent and query_agent

\* An agent made anew for every request: no field outlives a request.
AgentField_Fresh(created, value, initial) == initial

\* get_agent, lines 91-95: the field of the agent a request gets.  A new
\* agent, with its fields at their initial values, is made only when there
\* is none; otherwise the request gets the one agent with what it holds.
AgentField(created, value, initial) == IF created THEN value ELSE initial

\* get_agent, the dependency of the query endpoint; cid is the request's
\* conversation_id parameter (NoConversation when it is not given).
GetAgent(cid) ==
    /\ pc = "idle"
    /\ obs.n_queries < MaxQueries
    /\ agent' = TRUE
    /\ data' = AgentField(agent, data, None)
    /\ data_file' = AgentField(agent, data_file, None)
    /\ IF cid # NoConversation /\ cid \notin conversations
       THEN /\ messages' = AgentField(agent, messages, <<>>)
            /\ pc' = "idle"
            /\ last_return' = Http(404)
       ELSE /\ messages' = IF cid # NoConversation
                           THEN GetMessagesForOpenai(message_rows, cid)
                           ELSE AgentField(agent, messages, <<>>)
            /\ pc' = "query_agent"
            /\ last_return' = last_return
    /\ conversation_id' = cid
    /\ obs' = [obs EXCEPT !.n_queries = @ + 1]
    /\ UNCHANGED <<conversations, message_rows, script_file, requirements_file,
                   temp_dirs, agent_response, tool_call_count, tool_results,
                   batch_pos, args, run, responder>>

UserMessage(query) == [type |-> "message", role |-> "user", content |-> Text(query)]

\* query_agent, lines 353-375 up to the request process_user_input sends:
\* the conversation is created if none was given, the user message is saved
\* and appended to the agent's messages.  The locals of the call start out
\* empty.
QueryAgent(query, r) ==
    /\ pc = "query_agent"
    /\ LET new == conversation_id = NoConversation
           cid == IF new THEN CreateConversationId(conversations) ELSE conversation_id
           base == IF new THEN <<>> ELSE messages
       IN  /\ conversations' = IF new THEN conversations \cup {cid} ELSE conversations
           /\ conversation_id' = cid
           /\ message_rows' = SaveMessage(message_rows, cid, UserMessage(query))
           /\ messages' = Append(base, [role |-> "user", content |-> Text(query)])
           /\ obs' = [obs EXCEPT !.n_requests = 0, !.always_tools = TRUE,
                                 !.failed_at = 0, !.dispatched_at_failure = 0,
                                 !.fault = "none", !.limit_logged = FALSE,
                                 !.rows_mark = Len(message_rows),
                                 !.msgs_mark = Len(base)]
    /\ responder' = r
    /\ agent_response' = NoResponse
    /\ tool_results' = <<>>
    /\ tool_call_count' = 0
    /\ batch_pos' = 0
    /\ args' = NoArgs
    /\ pc' = "process_user_input"
    /\ UNCHANGED <<agent, data, data_file, script_file, requirements_file,
                   temp_dirs, run, last_return>>

\* One request to the model and the interpretation of what comes back:
\* the body of process_user_input and of handle_tool_response.
ModelRoundTrip(apology) ==
    LET element == Scripted(responder, obs.n_requests + 1)
    IN  IF element.kind = "fail"
        THEN /\ agent_response' = ErrorResponse(apology, element.error)
             /\ messages' = messages
             /\ obs' = [obs EXCEPT !.n_requests = @ + 1, !.always_tools = FALSE,
                                   !.failed_at = obs.n_requests + 1,
                                   !.dispatched_at_failure = Len(tool_results)]
        ELSE LET response == Response(element, obs.n_calls)
             IN  /\ agent_response' = AgentResponse(response)
                 /\ messages' = AppendAssistant(messages, response.output_text)
                 /\ obs' = [obs EXCEPT !.n_requests = @ + 1,
                                       !.n_calls = @ + Len(element.calls),
                                       !.always_tools = @ /\ element.calls # <<>>]

ProcessUserInput ==
    /\ pc = "process_user_input"
    /\ ModelRoundTrip(APOLOGY_REQUEST)
    /\ tool_results' = <<>>
    /\ tool_call_count' = 0
    /\ pc' = "while"
    /\ UNCHANGED <<agent, data, data_file, conversations, message_rows,
                   script_file, requirements_file, temp_dirs, conversation_id,
                   batch_pos, args, run, responder, last_return>>

\* The loop test with <= for <: one batch and one round trip too many.
WhileCondition_OffByOne ==
    agent_response.needs_tool_call /\ tool_call_count <= max_tool_calls

\* while agent_response.get('needs_tool_call', False) and tool_call_count < max_tool_calls
WhileCondition == agent_response.needs_tool_call /\ tool_call_count < max_tool_calls

While ==
    /\ pc = "while"
    /\ IF WhileCondition
       THEN /\ tool_call_count' = tool_call_count + 1
            /\ batch_pos' = 1
            /\ pc' = IF ToolCalls # <<>> THEN "for" ELSE "handle_tool_response"
       ELSE /\ pc' = "final"
            /\ UNCHANGED <<tool_call_count, batch_pos>>
    /\ UNCHANGED <<agent, data, data_file, messages, conversations, message_rows,
                   script_file, requirements_file, temp_dirs, conversation_id,
                   agent_response, tool_results, args, run, responder,
                   last_return, obs>>

ToolCallData(tool_call) ==
    [type |-> "function_call", call_id |-> tool_call.call_id,
     name |-> tool_call.name, arguments |-> tool_call.arguments]

\* The for loop's body up to json.loads, lines 388-405: the tool call is
\* saved and appended, then its arguments are parsed; arguments that are not
\* JSON raise out of query_agent.
ForToolCall ==
    /\ pc = "for"
    /\ LET tool_call == ToolCalls[batch_pos]
       IN  /\ message_rows' = SaveMessage(message_rows, conversation_id,
                                          ToolCallData(tool_call))
           /\ messages' = Append(messages, tool_call)
           /\ IF IsJson(tool_call.arguments)
              THEN /\ args' = JsonLoads(tool_call.arguments)
                   /\ pc' = "call_function"
                   /\ UNCHANGED <<last_return, obs>>
              ELSE /\ args' = args
                   /\ pc' = "idle"
                   /\ last_return' = Http(500)
                   /\ obs' = [obs EXCEPT !.fault = "json"]
    /\ UNCHANGED <<agent, data, data_file, conversations, script_file,
                   requirements_file, temp_dirs, conversation_id, agent_response,
                   tool_call_count, tool_results, batch_pos, run, responder>>

\* The result saved under the tool's name instead of the call id.
ToolResultMessage_WrongId(tool_call, result) ==
    [type |-> "function_call_output", call_id |-> tool_call.name,
     output |-> JsonDumps(result)]

ToolResultMessage(tool_call, result) ==
    [type |-> "function_call_output", call_id |-> tool_call.call_id,
     output |-> JsonDumps(result)]

\* Lines 412-433, after call_function has returned result: the result is
\* kept for the response, saved and appended; then the next call of the
\* batch, or handle_tool_response after the last one.
Finish(result) ==
    LET tool_call == ToolCalls[batch_pos]
    IN  /\ tool_results' = Append(tool_results,
                                  [tool |-> tool_call.name, arguments |-> args,
                                   result |-> result])
        /\ message_rows' = SaveMessage(message_rows, conversation_id,
                                       ToolResultMessage(tool_call, result))
        /\ messages' = Append(messages,
                              [type |-> "function_call_output",
                               call_id |-> tool_call.call_id,
                               output |-> Str(result)])
        /\ batch_pos' = batch_pos + 1
        /\ pc' = IF batch_pos < Len(ToolCalls) THEN "for" ELSE "handle_tool_response"

Raise(kind) ==
    /\ pc' = "idle"
    /\ last_return' = Http(500)
    /\ obs' = [obs EXCEPT !.fault = kind]

\* A preview that keeps its ten rows as the agent's dataset.
DataAfterCall_PreviewTruncates(name, tool_args, d) ==
    IF name = "load_dataset" /\ LoadDatasetAssigns(tool_args.filename)
    THEN ReadCsv("datasets/" \o tool_args.filename)
    ELSE IF name = "get_data_preview" /\ ~NoDatasetLoaded(d) THEN "head(10)"
    ELSE d

\* The agent's dataset after a tool handler has run: load_dataset assigns
\* it (tools.py line 128), the other handlers (lines 109-119, 142-167 and
\* the guard of run_script, 171-172) only read it.
DataAfterCall(name, tool_args, d) ==
    IF name = "load_dataset" /\ LoadDatasetAssigns(tool_args.filename)
    THEN ReadCsv("datasets/" \o tool_args.filename)
    ELSE d

\* A load that assigns the dataset and leaves the file name as it was.
DataFileAfterCall_Kept(name, tool_args, f) == f

\* The agent's file name after a tool handler has run: load_dataset assigns
\* it right after the dataset (tools.py line 129), no other handler does.
DataFileAfterCall(name, tool_args, f) ==
    IF name = "load_dataset" /\ LoadDatasetAssigns(tool_args.filename)
    THEN tool_args.filename
    ELSE f

\* agent.call_function(name, args, conversation_id), line 409, for every
\* tool but a run_script that reaches the synthesizer.  Arguments that do not
\* fit the handler's parameters raise TypeError out of query_agent.
CallFunction ==
    /\ pc = "call_function"
    /\ LET name == ToolCalls[batch_pos].name
       IN  IF ~Binds(name, args)
           THEN /\ Raise("args")
                /\ UNCHANGED <<data, data_file, messages, message_rows,
                               tool_results, batch_pos, run>>
           ELSE IF name = "run_script" /\ ~NoDatasetLoaded(data)
           THEN /\ pc' = "generate_script"
                /\ run' = [active |-> TRUE, analysis_request |-> args.analysis_request]
                /\ obs' = [obs EXCEPT !.synth_requests = @ + 1,
                                      !.install_failed = FALSE,
                                      !.spawned = FALSE,
                                      !.execution_result = Null]
                /\ UNCHANGED <<data, data_file, messages, message_rows,
                               tool_results, batch_pos, last_return>>
           ELSE /\ Finish(CASE name = "get_dataset_list" -> GetDatasetList
                            [] name = "load_dataset" -> LoadDataset(args.filename)
                            [] name = "get_data_preview" -> GetDataPreview(data, data_file)
                            [] name = "get_data_info" -> GetDataInfo(data, data_file)
                            [] name = "run_script" ->
                                 Error("No dataset loaded. Please load a dataset first.")
                            [] OTHER -> UnknownTool(name))
                /\ data' = DataAfterCall(name, args, data)
                /\ data_file' = DataFileAfterCall(name, args, data_file)
                /\ UNCHANGED <<run, last_return, obs>>
    /\ UNCHANGED <<agent, conversations, script_file, requirements_file,
                   temp_dirs, conversation_id, agent_response, tool_call_count,
                   args, responder>>

\* One fixed directory for every run.
TempDir_Fixed(n) == "/tmp/venv"

\* tempfile.TemporaryDirectory(): the n-th directory made, a new one each time.
TempDir(n) == "/tmp/tmp" \o ToString(n)

\* The test that lets an empty script through: if not script_info.
ScriptMissing_OnlyNone(script_info) == "packages" \notin DOMAIN script_info

\* run_script, line 179: if not script_info or not script_info.get('script')
ScriptMissing(script_info) == script_info.script = <<>>

\* run_script, lines 178-203: the synthesizer's request comes back; without
\* a script the tool ends in an error, otherwise the script and its
\* requirements are written and execute_standalone_script creates its
\* temporary directory.
GenerateScript(synth) ==
    /\ pc = "generate_script"
    /\ LET script_info == IF synth.failed THEN [script |-> <<>>]
                          ELSE ParseScript(synth.output_text)
       IN  IF ScriptMissing(script_info)
           THEN /\ Finish(Error("Failed to generate analysis script."))
                /\ run' = NoRun
                /\ UNCHANGED <<script_file, requirements_file, temp_dirs, obs>>
           ELSE /\ script_file' = WriteFile(script_file, CleanScript(script_info.script))
                /\ requirements_file' = WriteFile(requirements_file, script_info.packages)
                /\ temp_dirs' = temp_dirs \cup {TempDir(obs.n_dirs + 1)}
                /\ run' = [active |-> TRUE,
                           script |-> CleanScript(script_info.script),
                           required_packages |-> script_info.packages,
                           venv_dir |-> TempDir(obs.n_dirs + 1)]
                /\ obs' = [obs EXCEPT !.n_dirs = @ + 1,
                                      !.venvs = Append(@, TempDir(obs.n_dirs + 1))]
                /\ pc' = "venv_create"
                /\ UNCHANGED <<messages, message_rows, tool_results, batch_pos>>
    /\ UNCHANGED <<agent, data, data_file, conversations, conversation_id,
                   agent_response, tool_call_count, args, responder, last_return>>

\* A directory made with mkdtemp and never removed.
TemporaryDirectoryExit_Leaks(dirs, venv_dir) == dirs

\* Leaving the with block of execute_standalone_script removes the directory.
TemporaryDirectoryExit(dirs, venv_dir) == dirs \ {venv_dir}

\* execute_standalone_script returns execution_result: the with block is
\* left, run_script builds its result and call_function hands it back.
Return(execution_result) ==
    /\ temp_dirs' = TemporaryDirectoryExit(temp_dirs, run.venv_dir)
    /\ Finish(RunScriptOutput(RunScriptResult(run.script, run.required_packages,
                                              execution_result)))
    /\ run' = NoRun

VENV_ERROR == "Command returned non-zero exit status 1."

\* venv.create(venv_dir, with_pip=True): it succeeds or raises.
VenvCreate(ok) ==
    /\ pc = "venv_create"
    /\ IF ok
       THEN /\ pc' = "pip_install"
            /\ UNCHANGED <<messages, message_rows, temp_dirs, tool_results,
                           batch_pos, run, obs>>
       ELSE /\ Return(ExecuteFailed(VENV_ERROR))
            /\ obs' = [obs EXCEPT !.execution_result = ExecuteFailed(VENV_ERROR)]
    /\ UNCHANGED <<agent, data, data_file, conversations, script_file,
                   requirements_file, conversation_id, agent_response,
                   tool_call_count, args, responder, last_return>>

PIP_STDERR == "ERROR: No matching distribution found"

\* The installer run without check=True: its exit code is ignored.
InstallRaises_Unchecked(returncode) == FALSE

\* check=True: a non-zero exit of the installer raises CalledProcessError.
InstallRaises(returncode) == returncode # 0

\* subprocess.run([python, '-m', 'pip', 'install', ...], check=True)
PipInstall(returncode) ==
    /\ pc = "pip_install"
    /\ IF InstallRaises(returncode)
       THEN /\ Return(InstallFailed(PIP_STDERR))
            /\ obs' = [obs EXCEPT !.installs = @ + 1,
                                  !.install_failed = returncode # 0,
                                  !.execution_result = InstallFailed(PIP_STDERR)]
       ELSE /\ pc' = "run_script"
            /\ obs' = [obs EXCEPT !.installs = @ + 1,
                                  !.install_failed = returncode # 0]
            /\ UNCHANGED <<messages, message_rows, temp_dirs, tool_results,
                           batch_pos, run>>
    /\ UNCHANGED <<agent, data, data_file, conversations, script_file,
                   requirements_file, conversation_id, agent_response,
                   tool_call_count, args, responder, last_return>>

SCRIPT_STDOUT == "101.5"
SCRIPT_STDERR == "Traceback (most recent call last)"
\* What a script may print, and the exit codes it may end with.
ScriptStdouts == {"", SCRIPT_STDOUT}
ExitCodes == {0, 1, 2}

\* subprocess.run([python_path, script_path]): the script process is spawned.
RunSubprocess(returncode, stdout) ==
    /\ pc = "run_script"
    /\ Return(ExecutionResult(returncode, stdout, SCRIPT_STDERR))
    /\ obs' = [obs EXCEPT !.spawns = @ + 1, !.spawned = TRUE,
                          !.returncode = returncode, !.stdout = stdout,
                          !.execution_result =
                              ExecutionResult(returncode, stdout, SCRIPT_STDERR)]
    /\ UNCHANGED <<agent, data, data_file, conversations, script_file,
                   requirements_file, conversation_id, agent_response,
                   tool_call_count, args, responder, last_return>>

HandleToolResponse ==
    /\ pc = "handle_tool_response"
    /\ ModelRoundTrip(APOLOGY_TOOL)
    /\ pc' = "while"
    /\ UNCHANGED <<agent, data, data_file, conversations, message_rows,
                   script_file, requirements_file, temp_dirs, conversation_id,
                   tool_call_count, tool_results, batch_pos, args, run,
                   responder, last_return>>

\* A final message saved without the response's text.
FinalMessage_Blank(response) ==
    [type |-> "message", role |-> "assistant",
     content |-> Text(""),
     extra_data |-> IF response.token_usage # Null
                    THEN JsonDumps(response.token_usage) ELSE Null]

FinalMessage(response) ==
    [type |-> "message", role |-> "assistant",
     content |-> Text(response.output_text),
     extra_data |-> IF response.token_usage # Null
                    THEN JsonDumps(response.token_usage) ELSE Null]

\* A response that reports the newest tool result only.
QueryResponse_LastOnly ==
    [response |-> agent_response.output_text,
     tool_results |-> IF tool_results # <<>>
                      THEN <<tool_results[Len(tool_results)]>> ELSE Null,
     conversation_id |-> conversation_id,
     extra_data |-> JsonDumps(agent_response.token_usage)]

\* The value query_agent returns; tool_results is None when the list is empty.
QueryResponse ==
    [response |-> agent_response.output_text,
     tool_results |-> IF tool_results # <<>> THEN tool_results ELSE Null,
     conversation_id |-> conversation_id,
     extra_data |-> JsonDumps(agent_response.token_usage)]

\* query_agent, lines 440-466: the limit warning, the final assistant
\* message and the response.
Final ==
    /\ pc = "final"
    /\ message_rows' = IF "output_text" \in DOMAIN agent_response
                       THEN SaveMessage(message_rows, conversation_id,
                                        FinalMessage(agent_response))
                       ELSE message_rows
    /\ last_return' = QueryResponse
    /\ obs' = [obs EXCEPT !.limit_logged = tool_call_count >= max_tool_calls]
    /\ pc' = "idle"
    /\ UNCHANGED <<agent, data, data_file, messages, conversations, script_file,
                   requirements_file, temp_dirs, conversation_id, agent_response,
                   tool_call_count, tool_results, batch_pos, args, run, responder>>

\* run_analysis_script (POST /analyze), after its dependency get_agent:
\* run_script is called with analysis_request alone, the call does not bind
\* and the TypeError leaves the endpoint.
RunAnalysisScript ==
    /\ pc = "idle"
    /\ obs.n_queries < MaxQueries
    /\ ~Accepts("run_script", {"analysis_request"})
    /\ agent' = TRUE
    /\ data' = AgentField(agent, data, None)
    /\ data_file' = AgentField(agent, data_file, None)
    /\ messages' = AgentField(agent, messages, <<>>)
    /\ last_return' = Http(500)
    /\ obs' = [obs EXCEPT !.n_queries = @ + 1]
    /\ UNCHANGED <<conversations, message_rows, script_file, requirements_file,
                   temp_dirs, pc, conversation_id, agent_response,
                   tool_call_count, tool_results, batch_pos, args, run,
                   responder>>

\* reset_agent: the agent is dropped, and with it its dataset and its
\* messages; the next get_agent makes a new one.
ResetAgent ==
    /\ pc = "idle"
    /\ obs.n_queries < MaxQueries
    /\ agent' = FALSE
    /\ data' = None
    /\ data_file' = None
    /\ messages' = <<>>
    /\ last_return' = [status |-> "ok"]
    /\ obs' = [obs EXCEPT !.n_queries = @ + 1]
    /\ UNCHANGED <<conversations, message_rows, script_file, requirements_file,
                   temp_dirs, pc, conversation_id, agent_response,
                   tool_call_count, tool_results, batch_pos, args, run,
                   responder>>

Next ==
    \/ \E cid \in {NoConversation} \cup conversations
                  \cup {CreateConversationId(conversations)} : GetAgent(cid)
    \/ RunAnalysisScript
    \/ ResetAgent
    \/ \E r \in Responders : QueryAgent("What is the average price?", r)
    \/ ProcessUserInput
    \/ While
    \/ ForToolCall
    \/ CallFunction
    \/ \E synth \in SynthResponses : GenerateScript(synth)
    \/ \E ok \in BOOLEAN : VenvCreate(ok)
    \/ \E returncode \in {0, 1} : PipInstall(returncode)
    \/ \E returncode \in ExitCodes, stdout \in ScriptStdouts :
          RunSubprocess(returncode, stdout)
    \/ HandleToolResponse
    \/ Final

Spec == Init /\ [][Next]_vars

\* ------------------------------------------- requests served concurrently

\* The endpoints other than query_agent and the dependency get_agent are
\* plain functions, which the server runs in worker threads; query_agent is
\* a coroutine without an await and runs on the event loop.  A worker thread
\* that was started before query_agent took the loop runs beside it.

\* get_agent for another request (any endpoint called with conversation_id)
\* while a query is being served: the shared agent's messages are replaced
\* by the stored messages of that conversation, or 404 is raised.
ThreadGetAgent(cid) ==
    /\ pc # "idle"
    /\ obs.n_queries < MaxQueries
    /\ cid # NoConversation
    /\ messages' = IF cid \in conversations
                   THEN GetMessagesForOpenai(message_rows, cid)
                   ELSE messages
    /\ obs' = [obs EXCEPT !.n_queries = @ + 1]
    /\ UNCHANGED <<agent, data, data_file, conversations, message_rows,
                   script_file, requirements_file, temp_dirs, pc,
                   conversation_id, agent_response, tool_call_count,
                   tool_results, batch_pos, args, run, responder, last_return>>

\* load_dataset (POST /datasets/load) in a worker thread while a query is
\* being served.
ThreadLoadDataset(filename) ==
    /\ pc # "idle"
    /\ obs.n_queries < MaxQueries
    /\ IF LoadDatasetAssigns(filename)
       THEN /\ data' = ReadCsv("datasets/" \o filename)
            /\ data_file' = filename
       ELSE UNCHANGED <<data, data_file>>
    /\ obs' = [obs EXCEPT !.n_queries = @ + 1]
    /\ UNCHANGED <<agent, messages, conversations, message_rows, script_file,
                   requirements_file, temp_dirs, pc, conversation_id,
                   agent_response, tool_call_count, tool_results, batch_pos,
                   args, run, responder, last_return>>

NextConcurrent ==
    \/ Next
    \/ \E cid \in conversations \cup {CreateConversationId(conversations)} :
          ThreadGetAgent(cid)
    \/ \E filename \in DatasetFiles \cup {"missing.csv"} :
          ThreadLoadDataset(filename)

SpecConcurrent == Init /\ [][NextConcurrent]_vars

\* ------------------------------------ generate_script on response texts

MaxScriptLen == 3

\* Script texts: up to MaxScriptLen tokens, code lines, blanks and newlines.
ScriptTokens == {"import pandas", "print(result)", " ", "\n"}
ScriptTexts == UNION {[1..k -> ScriptTokens] : k \in 1..MaxScriptLen}

\* Package lists as the model writes them: names separated by a comma, with
\* or without a blank after it.
PackageLists ==
    {<<"pandas">>,
     <<"pandas", ",", " ", "numpy">>,
     <<"numpy", ",", "pandas", ",", " ", "scipy">>}
PackageNames(list) == SelectSeq(list, LAMBDA tok : tok \notin {",", " "})

\* The declaration line, ending right after the last name or with a blank
\* before the newline.
LineEnds == {<<"\n">>, <<" ", "\n">>}
Declaration(list, end) == <<"PACKAGES:", " ">> \o list \o end

\* A comment further down in a script that has the text PACKAGES: in it,
\* as the last line and with a line after it.
Mentions ==
    {<<"\n", "#", " ", "PACKAGES:", " ", "none">>,
     <<"\n", "#", " ", "PACKAGES:", " ", "none", "\n", "print(result)">>}

\* The responses generate_script is applied to, with the parts they were
\* made of.
SynthInputs ==
    {[output_text |-> Declaration(list, end) \o script, declared |-> TRUE,
      names |-> PackageNames(list), script_text |-> script] :
        list \in PackageLists, end \in LineEnds, script \in ScriptTexts}
    \cup
    {[output_text |-> script, declared |-> FALSE,
      names |-> <<>>, script_text |-> script] : script \in ScriptTexts}
    \cup
    {[output_text |-> script \o mention, declared |-> FALSE,
      names |-> <<>>, script_text |-> script \o mention] :
        script \in ScriptTexts, mention \in Mentions}

InitSynth ==
    /\ agent = TRUE
    /\ data = ReadCsv("datasets/prices.csv")
    /\ data_file = "prices.csv"
    /\ messages = <<>>
    /\ conversations = {}
    /\ message_rows = <<>>
    /\ script_file = NoFile
    /\ requirements_file = NoFile
    /\ temp_dirs = {}
    /\ pc = "generate_script"
    /\ conversation_id = NoConversation
    /\ agent_response = NoResponse
    /\ tool_call_count = 0
    /\ tool_results = <<>>
    /\ batch_pos = 0
    /\ args = NoArgs
    /\ \E input \in SynthInputs : run = [active |-> TRUE, input |-> input]
    /\ responder = <<>>
    /\ last_return = [status_code |-> 0]
    /\ obs = [n_queries |-> 0, n_requests |-> 0, n_calls |-> 0, n_dirs |-> 0,
              always_tools |-> FALSE, failed_at |-> 0, dispatched_at_failure |-> 0,
              fault |-> "none", rows_mark |-> 0, msgs_mark |-> 0,
              synth_requests |-> 0, installs |-> 0, install_failed |-> FALSE,
              spawns |-> 0, spawned |-> FALSE, execution_result |-> Null,
              limit_logged |-> FALSE, returncode |-> 0, stdout |-> "",
              venvs |-> <<>>, stale |-> {}]

\* generate_script, lines 21-32: the response text has come back and the
\* function returns what it parsed from it.
GenerateScriptReturns ==
    /\ pc = "generate_script"
    /\ "input" \in DOMAIN run
    /\ run' = [active |-> TRUE, input |-> run.input,
               script_info |-> ParseScript(run.input.output_text)]
    /\ pc' = "generate_script_returned"
    /\ obs' = [obs EXCEPT !.synth_requests = @ + 1]
    /\ UNCHANGED <<agent, data, data_file, messages, conversations, message_rows,
                   script_file, requirements_file, temp_dirs, conversation_id,
                   agent_response, tool_call_count, tool_results, batch_pos,
                   args, responder, last_return>>

NextSynth == GenerateScriptReturns

SpecSynth == InitSynth /\ [][NextSynth]_vars

\* ---------------------------------------------------------------- claims

\* query_agent has returned its response (not raised, not a 404).
Returned == pc = "idle" /\ "response" \in DOMAIN last_return

QueryResponseFields == {"response", "tool_results", "conversation_id", "extra_data"}

\* C1, as stated: when the model requests a tool call in every response, the
\* run ends after exactly 5 round trips (process_user_input and every
\* handle_tool_response counted) and its return value carries an indicator
\* that the bound was exceeded.
C1_FiveRoundTripsAndIndicator ==
    (Returned /\ obs.always_tools) =>
        /\ obs.n_requests = max_tool_calls
        /\ DOMAIN last_return \ QueryResponseFields # {}

\* C1, amended: no run makes more than max_tool_calls + 1 = 6 round trips or
\* dispatches more than 5 batches; when the model requests a tool call in
\* every response, a run that returns has made exactly 6 round trips and
\* dispatched exactly 5 batches, the limit is logged, and the return value
\* has the four fields of QueryResponse and no indicator of the bound.
C1_RoundTripBound ==
    /\ obs.n_requests <= max_tool_calls + 1
    /\ tool_call_count <= max_tool_calls
    /\ (Returned /\ obs.always_tools) =>
          /\ obs.n_requests = max_tool_calls + 1
          /\ tool_call_count = max_tool_calls
          /\ obs.limit_logged
          /\ DOMAIN last_return = QueryResponseFields

C1_Witness ==
    /\ Returned
    /\ obs.always_tools
    /\ obs.n_requests = max_tool_calls + 1
    /\ Len(tool_results) = max_tool_calls

\* C2: a tool call whose dispatch fails (arguments that are not JSON, or
\* that do not fit the tool's parameters) does not fail the query: the
\* request is not answered with an error status, and the last row saved is
\* the error result of that call, a function_call_output.
C2_DispatchFailureFedBack ==
    obs.fault # "none" =>
        /\ "status_code" \notin DOMAIN last_return
        /\ message_rows[Len(message_rows)].message_type = "function_call_output"
        /\ message_rows[Len(message_rows)].content.json.status = "error"

IsToolCall(m) == Field(m, "type") = "function_call"
IsToolResult(m) == Field(m, "type") = "function_call_output"

\* Every tool-call result of the agent's message list is immediately
\* preceded by the tool-call request with the same call id.
MessagesPaired ==
    \A i \in 1..Len(messages) :
        IsToolResult(messages[i]) =>
            /\ i > 1
            /\ IsToolCall(messages[i - 1])
            /\ messages[i - 1].call_id = messages[i].call_id

\* The same in the stored messages of every conversation.
RowsPaired ==
    \A c \in {message_rows[i].conversation_id : i \in 1..Len(message_rows)} :
        LET rows == GetMessages(message_rows, c)
        IN  \A i \in 1..Len(rows) :
                rows[i].message_type = "function_call_output" =>
                    /\ i > 1
                    /\ rows[i - 1].message_type = "function_call"
                    /\ rows[i - 1].call_id = rows[i].call_id

\* Once no query is running, every stored request has its result after it.
RequestsAnswered ==
    pc = "idle" =>
        \A c \in {message_rows[i].conversation_id : i \in 1..Len(message_rows)} :
            LET rows == GetMessages(message_rows, c)
            IN  \A i \in 1..Len(rows) :
                    rows[i].message_type = "function_call" =>
                        /\ i < Len(rows)
                        /\ rows[i + 1].message_type = "function_call_output"
                        /\ rows[i + 1].call_id = rows[i].call_id

\* C3: in the agent's message list and in the stored messages, each
\* tool-call result is immediately preceded by the request with the same
\* call id, and once a query has finished every stored request has its
\* result.
C3_ResultFollowsRequest == MessagesPaired /\ RowsPaired /\ RequestsAnswered

SandboxSteps == {"venv_create", "pip_install", "run_script"}

\* C4: the result call_function returns for a run_script whose script
\* exited with code 0, which is kept in tool_results and appended to the
\* messages sent to the model, has a status and a message and nothing else:
\* no script source, no nested execution result, no captured stdout.
C4_SuccessResultIsTerse ==
    /\ \A i \in 1..Len(tool_results) :
          (/\ tool_results[i].tool = "run_script"
           /\ tool_results[i].result.status \in {"success", "executed"})
          => DOMAIN tool_results[i].result \subseteq {"status", "message"}
    /\ \A i \in 1..Len(messages) :
          (/\ IsToolResult(messages[i])
           /\ messages[i].output.repr.status \in {"success", "executed"}
           /\ messages[i - 1].name = "run_script")
          => DOMAIN messages[i].output.repr \subseteq {"status", "message"}

\* C5: a run_script call made while no dataset is loaded ends in that step
\* with an error result; the synthesizer is not asked, no sandbox step is
\* entered, no temporary directory is made and the script and requirements
\* files stay as they were.
C5_NoDatasetShortCircuit ==
    [][(/\ pc = "call_function"
        /\ ToolCalls[batch_pos].name = "run_script"
        /\ Binds("run_script", args)
        /\ data = None)
       => (/\ pc' \in {"for", "handle_tool_response"}
           /\ Len(tool_results') = Len(tool_results) + 1
           /\ tool_results'[Len(tool_results')].result.status = "error"
           /\ DOMAIN tool_results'[Len(tool_results')].result = {"status", "message"}
           /\ obs'.synth_requests = obs.synth_requests
           /\ obs'.spawns = obs.spawns
           /\ obs'.n_dirs = obs.n_dirs
           /\ run' = NoRun
           /\ temp_dirs' = temp_dirs
           /\ script_file' = script_file
           /\ requirements_file' = requirements_file)]_vars

C5_Witness ==
    /\ data = None
    /\ \E i \in 1..Len(tool_results) :
          /\ tool_results[i].tool = "run_script"
          /\ tool_results[i].result =
                 Error("No dataset loaded. Please load a dataset first.")

\* C6: when the package install step of a sandbox run has ended with a
\* non-zero exit, the script process has not been spawned in that run and is
\* not about to be, and the run has returned an error result whose message
\* carries the installer's stderr.
C6_InstallFailureShortCircuits ==
    obs.install_failed =>
        /\ ~obs.spawned
        /\ pc # "run_script"
        /\ run = NoRun
        /\ obs.execution_result.status = "error"
        /\ obs.execution_result.message =
               "Failed to install required packages: " \o PIP_STDERR

C6_Witness ==
    /\ obs.install_failed
    /\ obs.installs > 0
    /\ obs.execution_result = InstallFailed(PIP_STDERR)

\* C7: a temporary environment directory exists only while
\* execute_standalone_script is running; once the call has returned, on any
\* of its exit paths, no temporary directory is left.
C7_TempDirRemoved ==
    pc \notin SandboxSteps => temp_dirs = {}

C7_Witness ==
    /\ obs.n_dirs > 0
    /\ pc \notin SandboxSteps
    /\ obs.execution_result = ExecuteFailed(VENV_ERROR)

\* C8: after a model request of a query has failed, no further model
\* request is made and no further tool call is dispatched for that query;
\* the internal response holds the apology as its text and the error string
\* in its error field; the query returns the apology, saved as the last row,
\* and neither the returned value nor that row holds the error string.
C8_ModelFailureEndsQuery ==
    obs.failed_at # 0 =>
        /\ obs.n_requests = obs.failed_at
        /\ Len(tool_results) = obs.dispatched_at_failure
        /\ pc \in {"while", "final", "idle", "query_agent"}
        /\ agent_response.output_text =
               (IF obs.failed_at = 1 THEN APOLOGY_REQUEST ELSE APOLOGY_TOOL)
        /\ agent_response.error = "Connection error."
        /\ ~agent_response.needs_tool_call
        /\ "response" \in DOMAIN last_return /\ pc \in {"idle", "query_agent"} =>
              /\ last_return.response = agent_response.output_text
              /\ DOMAIN last_return \subseteq QueryResponseFields
              /\ last_return.extra_data = JsonDumps(Null)
              /\ message_rows[Len(message_rows)] =
                     MessageRow(last_return.conversation_id,
                                [type |-> "message", role |-> "assistant",
                                 content |-> Text(agent_response.output_text)])

C8_Witness ==
    /\ Returned
    /\ obs.failed_at = 2
    /\ last_return.response = APOLOGY_TOOL

\* A turn, whichever way it is held: its kind, role, call id, tool name and
\* payload (the text, the arguments, or the result that was serialized).
TurnOfRow(r) ==
    [kind |-> r.message_type, role |-> r.role, call_id |-> r.call_id,
     name |-> r.function_name,
     payload |-> IF r.message_type = "function_call_output"
                 THEN [result |-> r.content.json] ELSE r.content]

TurnOfMessage(m) ==
    [kind |-> IF "type" \in DOMAIN m THEN m.type ELSE "message",
     role |-> Field(m, "role"), call_id |-> Field(m, "call_id"),
     name |-> Field(m, "name"),
     payload |-> IF IsToolResult(m) THEN [result |-> m.output.repr]
                 ELSE IF IsToolCall(m) THEN m.arguments ELSE m.content]

PersistedTurns ==
    LET rows == SubSeq(message_rows, obs.rows_mark + 1, Len(message_rows))
    IN  [i \in 1..Len(rows) |-> TurnOfRow(rows[i])]

ProducedTurns ==
    LET produced == SubSeq(messages, obs.msgs_mark + 1, Len(messages))
    IN  [i \in 1..Len(produced) |-> TurnOfMessage(produced[i])]

\* C9: when a query has returned, the turns it wrote to the store are the
\* turns the loop added to the agent's messages, in the same order.
C9_PersistedEqualsProduced == Returned => PersistedTurns = ProducedTurns

\* C10: every stored tool-call result has the call id of a tool-call request
\* stored earlier for the same conversation.
C10_ResultHasEarlierRequest ==
    \A i \in 1..Len(message_rows) :
        message_rows[i].message_type = "function_call_output" =>
            \E j \in 1..(i - 1) :
                /\ message_rows[j].message_type = "function_call"
                /\ message_rows[j].conversation_id = message_rows[i].conversation_id
                /\ message_rows[j].call_id = message_rows[i].call_id

C10_Witness ==
    \E i \in 1..Len(message_rows) :
        message_rows[i].message_type = "function_call_output"

IsPrefixOf(s, t) == Len(s) <= Len(t) /\ SubSeq(t, 1, Len(s)) = s

StoredConversations ==
    conversations \cup {message_rows[i].conversation_id : i \in 1..Len(message_rows)}

\* C11: the stored turn sequence of a conversation is append-only: every
\* step leaves the sequence stored for each conversation as it was or
\* extends it at the end.
C11_StoredTurnsAppendOnly ==
    [][\A c \in StoredConversations :
          IsPrefixOf(GetMessages(message_rows, c), GetMessages(message_rows', c))]_vars

\* A conversation that two queries have written to.
C11_Witness ==
    \E c \in conversations :
        Len(SelectSeq(GetMessages(message_rows, c),
                      LAMBDA r : r.role = "user")) >= 2

\* The calls of the response being handled, as the model emitted them.
Emitted == Scripted(responder, obs.n_requests).calls

Dispatching ==
    pc \in {"for", "call_function", "generate_script", "handle_tool_response"}
           \cup SandboxSteps

\* The calls of the batch whose request has been appended, and those whose
\* result has been appended too.
Started == IF pc = "for" THEN batch_pos - 1
           ELSE IF pc = "handle_tool_response" THEN Len(Emitted) ELSE batch_pos
Finished == IF pc \in {"for", "handle_tool_response"} THEN Started ELSE Started - 1

Loadable(call) ==
    /\ call.name = "load_dataset"
    /\ IsJson(call.arguments)
    /\ DOMAIN call.arguments.json = {"filename"}
    /\ call.arguments.json.filename \in DatasetFiles \ UnreadableFiles

\* C12: while a batch is dispatched, the turns appended for it are request
\* 1, result 1, request 2, result 2, ... in the order the model emitted the
\* calls, the result of each call being appended before the next request;
\* and a run_script that follows a load_dataset in the batch finds the
\* dataset that call loaded.
C12_BatchInEmittedOrder ==
    Dispatching =>
        LET base == Len(messages) - Started - Finished
            done == Len(tool_results) - Finished
        IN  /\ base >= 0 /\ done >= 0
            /\ \A i \in 1..Started :
                  /\ IsToolCall(messages[base + 2 * i - 1])
                  /\ messages[base + 2 * i - 1].name = Emitted[i].name
                  /\ messages[base + 2 * i - 1].arguments = Emitted[i].arguments
            /\ \A i \in 1..Finished :
                  /\ IsToolResult(messages[base + 2 * i])
                  /\ messages[base + 2 * i].call_id = messages[base + 2 * i - 1].call_id
                  /\ tool_results[done + i].tool = Emitted[i].name
                  /\ messages[base + 2 * i].output = Str(tool_results[done + i].result)
            /\ \A i \in 2..Started :
                  (Loadable(Emitted[i - 1]) /\ Emitted[i].name = "run_script") =>
                      /\ data_file = Emitted[i - 1].arguments.json.filename
                      /\ data = ReadCsv("datasets/" \o data_file)
                      /\ i <= Finished =>
                            tool_results[done + i].result.message #
                                "No dataset loaded. Please load a dataset first."

C12_Witness ==
    /\ pc = "handle_tool_response"
    /\ Len(Emitted) = 2
    /\ Loadable(Emitted[1])
    /\ Emitted[2].name = "run_script"
    /\ tool_results[Len(tool_results)].tool = "run_script"
    /\ tool_results[Len(tool_results)].result.status = "success"

\* C14: a load_dataset call for a file that is not in the dataset directory,
\* or that cannot be read, returns an error result and leaves agent.data and
\* agent.data_file as they were.
C14_FailedLoadKeepsDataset ==
    [][(/\ pc = "call_function"
        /\ ToolCalls[batch_pos].name = "load_dataset"
        /\ Binds("load_dataset", args)
        /\ (args.filename \notin DatasetFiles \/ args.filename \in UnreadableFiles))
       => (/\ Len(tool_results') = Len(tool_results) + 1
           /\ tool_results'[Len(tool_results')].result.status = "error"
           /\ DOMAIN tool_results'[Len(tool_results')].result = {"status", "message"}
           /\ data' = data
           /\ data_file' = data_file)]_vars

\* A dataset was loaded, a later load failed, and the first is still active.
C14_Witness ==
    \E i, j \in 1..Len(tool_results) :
        /\ i < j
        /\ tool_results[i].tool = "load_dataset"
        /\ tool_results[i].result.status = "success"
        /\ tool_results[j].tool = "load_dataset"
        /\ tool_results[j].result.status = "error"
        /\ data_file = tool_results[i].arguments.filename
        /\ data = ReadCsv("datasets/" \o data_file)

AwaitingModel == pc \in {"process_user_input", "handle_tool_response"}
HandlingTools == pc \in {"for", "call_function", "generate_script"} \cup SandboxSteps

\* The loop's decision on a response: DONE exactly when it has no tool call.
DoneOnZeroCalls ==
    pc = "while" => (pc' = "final" <=> ToolCalls = <<>>)
HandlingOnSomeCall ==
    pc = "while" => (pc' = "for" <=> ToolCalls # <<>>)
\* HANDLING_TOOLS is left only for the next model request, and only when
\* every call of the batch has been dispatched and its result appended.
NextRequestAfterWholeBatch ==
    HandlingTools =>
        /\ pc' \in {"for", "call_function", "generate_script", "handle_tool_response"}
                   \cup SandboxSteps
        /\ pc' = "handle_tool_response" =>
              /\ batch_pos' = Len(ToolCalls) + 1
              /\ IsToolResult(messages'[Len(messages')])
              /\ messages'[Len(messages')].call_id = ToolCalls[Len(ToolCalls)].call_id
\* A query ends in DONE and nowhere else, and DONE returns the response.
EndsInDone ==
    /\ (pc \notin {"idle", "query_agent"} /\ pc' = "idle") => pc = "final"
    /\ pc = "final" => (pc' = "idle" /\ "response" \in DOMAIN last_return')

\* C13: the loop takes only the transitions of the state machine: from
\* AWAITING_MODEL to DONE exactly when the response has no tool call and to
\* HANDLING_TOOLS when it has one; from HANDLING_TOOLS to the next model
\* request only after the whole batch was dispatched and answered; a query
\* ends in DONE, which is terminal.
C13_StateMachine ==
    [][/\ DoneOnZeroCalls
       /\ HandlingOnSomeCall
       /\ NextRequestAfterWholeBatch
       /\ EndsInDone]_vars

\* C16: no request ends in an unhandled exception: every request that has
\* ended returned the value of its endpoint or an HTTP error with a detail
\* message.
C16_NoRawFault ==
    "status_code" \in DOMAIN last_return => last_return.status_code # 500

\* C19: when the install step has succeeded, the result of the sandbox run
\* follows from the script's exit code: 0 gives a success result with the
\* captured stdout, empty or not; any other code gives an error result with
\* the captured stderr and a failure message made of it.
C19_ResultFollowsExitCode ==
    [][pc = "run_script" =>
          LET result == tool_results'[Len(tool_results')].result
              execution_result == result.execution_result
          IN  /\ Len(tool_results') = Len(tool_results) + 1
              /\ obs'.returncode = 0 =>
                    /\ execution_result.status = "success"
                    /\ execution_result.output = obs'.stdout
                    /\ result.status = "success"
              /\ obs'.returncode # 0 =>
                    /\ execution_result.status = "error"
                    /\ execution_result.output = SCRIPT_STDERR
                    /\ execution_result.message =
                           "Script execution failed: " \o SCRIPT_STDERR
                    /\ result.status = "error"]_vars

\* A script that exited with 0 and printed nothing: a success.
C19_Witness ==
    /\ obs.spawned
    /\ obs.returncode = 0
    /\ obs.stdout = ""
    /\ tool_results # <<>>
    /\ tool_results[Len(tool_results)].tool = "run_script"
    /\ tool_results[Len(tool_results)].result.status = "success"
    /\ tool_results[Len(tool_results)].result.execution_result.output = ""

\* C20: every sandbox run has an environment directory of its own: the
\* directories of the runs made so far are all different, the only
\* directory that exists during a run is that run's, and none exists
\* between runs.
C20_EnvironmentPerRun ==
    /\ \A i, j \in 1..Len(obs.venvs) : i # j => obs.venvs[i] # obs.venvs[j]
    /\ pc \in SandboxSteps =>
          /\ run.venv_dir = obs.venvs[Len(obs.venvs)]
          /\ temp_dirs = {run.venv_dir}
    /\ pc \notin SandboxSteps => temp_dirs = {}

\* Two runs have been made and the second has ended.
C20_Witness ==
    /\ Len(obs.venvs) >= 2
    /\ obs.spawns >= 2
    /\ pc \notin SandboxSteps

SynthReturned == pc = "generate_script_returned"

PackagesInOrder ==
    (SynthReturned /\ run.input.declared) =>
        run.script_info.packages = [i \in 1..Len(run.input.names) |-> run.input.names[i]]
SourceIsTextWithoutLine ==
    (SynthReturned /\ run.input.declared) =>
        run.script_info.script = run.input.script_text

\* C17: for a response made of the declaration line "PACKAGES: " with names
\* separated by commas and of script text after it, generate_script returns
\* the names in order as the packages and, as the source, exactly the
\* script text: the response without the declaration line.
C17_DeclaredPackagesParsed == PackagesInOrder /\ SourceIsTextWithoutLine

\* C18: for a response in which "PACKAGES:" does not occur, generate_script
\* returns the packages numpy, pandas, matplotlib and the response text,
\* unchanged, as the source.
C18_DefaultPackages ==
    (SynthReturned /\ Find(run.input.output_text, "PACKAGES:") = 0) =>
        /\ run.script_info.packages = <<"numpy", "pandas", "matplotlib">>
        /\ run.script_info.script = run.input.output_text

\* A response without declaration that starts and ends with white space.
C18_Witness ==
    /\ SynthReturned
    /\ ~run.input.declared
    /\ run.input.output_text = <<"\n", "print(result)", "\n">>
    /\ run.script_info.script = <<"\n", "print(result)", "\n">>

\* A query is between its first model request and its return.
QueryInLoop == pc \notin {"idle", "query_agent"}

\* C15: one query is processed from start to finish before another request
\* touches the agent: while a query is in its loop, the agent's messages
\* only grow by what the loop appends, and the dataset changes only when
\* the loop dispatches a load_dataset call of its own.
C15_QueryRunsAlone ==
    [][QueryInLoop =>
          /\ IsPrefixOf(messages, messages')
          /\ (data' # data \/ data_file' # data_file) =>
                (pc = "call_function" /\ ToolCalls[batch_pos].name = "load_dataset")]_vars

\* The step on which run_script has a script and hands it to the sandbox.
ReachesExecution == pc = "generate_script" /\ pc' = "venv_create"

\* The step on which execute_standalone_script is left.
LeavesSandbox == pc \in SandboxSteps /\ pc' \notin SandboxSteps

\* C21: the script and requirements files are one slot each.  The step of
\* a run_script call that reaches execution leaves in them exactly that
\* call's source and package list, whatever they held before; no other step
\* writes them; and when the sandbox of the call is left its directory is
\* gone while the two files still hold that call's source and packages.
C21_SingleSlotArtifact ==
    [][/\ ReachesExecution =>
             /\ script_file' = File(run'.script)
             /\ requirements_file' = File(run'.required_packages)
       /\ ~ReachesExecution => UNCHANGED <<script_file, requirements_file>>
       /\ LeavesSandbox =>
             /\ run.venv_dir \notin temp_dirs'
             /\ script_file' = File(run.script)
             /\ requirements_file' = File(run.required_packages)]_vars

\* The results saved for run_script calls that reached execution.
RunResults ==
    SelectSeq(message_rows,
              LAMBDA r : /\ r.message_type = "function_call_output"
                         /\ "script" \in DOMAIN r.content.json)

\* Two calls reached execution with different sources and different
\* package lists, both sandboxes are gone, and the files hold the second.
C21_Witness ==
    /\ pc \notin SandboxSteps \cup {"generate_script"}
    /\ Len(RunResults) = 2
    /\ RunResults[1].content.json.script # RunResults[2].content.json.script
    /\ RunResults[1].content.json.required_packages
          # RunResults[2].content.json.required_packages
    /\ script_file = File(RunResults[2].content.json.script)
    /\ requirements_file = File(RunResults[2].content.json.required_packages)
    /\ temp_dirs = {}

\* The step of a load_dataset call that reads its file.
SuccessfulLoad ==
    /\ pc = "call_function"
    /\ ToolCalls[batch_pos].name = "load_dataset"
    /\ LoadDatasetAssigns(args.filename)

C22_ResetWitness ==
    /\ ~agent
    /\ data = None
    /\ \E i \in 1..Len(message_rows) :
          /\ message_rows[i].message_type = "function_call_output"
          /\ "shape" \in DOMAIN message_rows[i].content.json
          /\ message_rows[i].content.json.status = "success"

ReadOnlyTools == {"get_dataset_list", "get_data_preview", "get_data_info"}

\* A step of a run_script call: its dispatch, the synthesizer's answer, or
\* a step of its sandbox.
RunScriptStep ==
    \/ pc = "call_function" /\ ToolCalls[batch_pos].name = "run_script"
    \/ pc \in {"generate_script"} \cup SandboxSteps

\* C23: a get_dataset_list, get_data_preview or get_data_info call leaves
\* the dataset, its file name and the script and requirements files as
\* they were, and no step of a run_script call changes the dataset or its
\* file name.
C23_ReadOnlyTools ==
    [][/\ (pc = "call_function" /\ ToolCalls[batch_pos].name \in ReadOnlyTools)
          => UNCHANGED <<data, data_file, script_file, requirements_file>>
       /\ RunScriptStep => UNCHANGED <<data, data_file>>]_vars

\* get_data_preview has just returned its preview of a loaded dataset, in
\* a session whose script files had been written before.
C23_Witness ==
    /\ tool_results # <<>>
    /\ tool_results[Len(tool_results)].tool = "get_data_preview"
    /\ tool_results[Len(tool_results)].result.status = "success"
    /\ data # None
    /\ script_file # NoFile
    /\ requirements_file # NoFile

\* C24: dispatching a tool name outside the catalogue returns the result
\* {status: error, message: "Unknown tool: <name>"}: the result is recorded
\* like any other and the batch goes on, nothing is raised, and the agent,
\* its dataset, the script files, the sandbox directories and the set of
\* conversations are as before.
C24_UnknownToolIsAnErrorResult ==
    [][(pc = "call_function" /\ ToolCalls[batch_pos].name \notin Catalogue) =>
          /\ tool_results' =
                Append(tool_results,
                       [tool |-> ToolCalls[batch_pos].name,
                        arguments |-> args,
                        result |-> [status |-> "error",
                                    message |-> "Unknown tool: "
                                                  \o ToolCalls[batch_pos].name]])
          /\ pc' \in {"for", "handle_tool_response"}
          /\ obs'.fault = obs.fault
          /\ UNCHANGED <<agent, data, data_file, script_file, requirements_file,
                         temp_dirs, conversations, run, last_return>>]_vars

\* A call of plot_chart, which is not in the catalogue, has been answered
\* while a dataset was loaded.
C24_Witness ==
    /\ tool_results # <<>>
    /\ tool_results[Len(tool_results)].tool = "plot_chart"
    /\ tool_results[Len(tool_results)].tool \notin Catalogue
    /\ tool_results[Len(tool_results)].result.status = "error"
    /\ data # None

\* The result of the call dispatched by the step.
DispatchedResult == tool_results'[Len(tool_results')].result

\* C25: a get_data_preview or get_data_info call made while no dataset is
\* loaded returns an error result, and one made while a dataset is loaded
\* returns a success result whose filename is the agent's current dataset
\* file.
C25_PreviewAndInfoNeedADataset ==
    [][(/\ pc = "call_function"
        /\ ToolCalls[batch_pos].name \in {"get_data_preview", "get_data_info"}) =>
          /\ pc' \in {"for", "handle_tool_response"}
          /\ Len(tool_results') = Len(tool_results) + 1
          /\ data = None =>
                DispatchedResult = [status |-> "error",
                                    message |-> "No dataset loaded yet."]
          /\ data # None =>
                /\ DispatchedResult.status = "success"
                /\ DispatchedResult.filename = data_file
                /\ data_file # None]_vars

\* A preview asked for before any dataset was loaded was answered with the
\* error, and a later one, asked for after prices.csv had been loaded and
\* a load of another file had failed, names prices.csv.
C25_Witness ==
    /\ \E i \in 1..Len(message_rows) :
          /\ message_rows[i].message_type = "function_call_output"
          /\ message_rows[i].content.json = Error("No dataset loaded yet.")
    /\ Len(tool_results) = 3
    /\ tool_results[2].tool = "load_dataset"
    /\ tool_results[2].result.status = "error"
    /\ tool_results[3].tool = "get_data_preview"
    /\ tool_results[3].result.status = "success"
    /\ tool_results[3].result.filename = "prices.csv"
    /\ data_file = "prices.csv"

\* C26: when the script of a run_script call exits with code 0, the result
\* call_function returns for the call is {status: executed, message: the
\* stdout the sandbox captured}.
C26_ExitZeroResultIsExecuted ==
    [][(pc = "run_script" /\ obs'.returncode = 0) =>
          DispatchedResult = [status |-> "executed", message |-> obs'.stdout]]_vars

\* The rows saved since the query in hand (or the last one) started.
RowsOfQuery == SubSeq(message_rows, obs.rows_mark + 1, Len(message_rows))

\* What the model's last answer of the query said: the text of its
\* response, or the apology that stands for a request that failed.
LastResponseText ==
    LET element == Scripted(responder, obs.n_requests)
    IN  IF element.kind = "fail"
        THEN IF obs.n_requests = 1 THEN APOLOGY_REQUEST ELSE APOLOGY_TOOL
        ELSE element.text

\* C27: when a query has returned its response, the rows saved for it are,
\* in this order, one user message with the query, rows of tool calls and
\* tool results only, and one assistant message; that assistant message is
\* the newest row of the conversation and its content is the text of the
\* model's last response, or the apology if the last request failed.
C27_UserFirstAssistantLast ==
    Returned =>
       LET rows == RowsOfQuery
           cid == last_return.conversation_id
           stored == GetMessages(message_rows, cid)
       IN  /\ Len(rows) >= 2
           /\ \A i \in 1..Len(rows) : rows[i].conversation_id = cid
           /\ rows[1].message_type = "message"
           /\ rows[1].role = "user"
           /\ rows[1].content = Text("What is the average price?")
           /\ \A i \in 2..(Len(rows) - 1) :
                 rows[i].message_type \in {"function_call", "function_call_output"}
           /\ rows[Len(rows)].message_type = "message"
           /\ rows[Len(rows)].role = "assistant"
           /\ rows[Len(rows)].content = Text(LastResponseText)
           /\ rows[Len(rows)].content = Text(last_return.response)
           /\ stored[Len(stored)] = rows[Len(rows)]

\* The second query of a conversation has returned: it dispatched a tool
\* call, the request that followed failed, and the apology is its final
\* assistant message.
C27_Witness ==
    /\ Returned
    /\ obs.rows_mark > 0
    /\ message_rows[obs.rows_mark].conversation_id = last_return.conversation_id
    /\ Len(RowsOfQuery) = 4
    /\ RowsOfQuery[4].content = Text(APOLOGY_TOOL)

\* The tool calls dispatched during the query, and the results they got,
\* as they were saved one by one while the batch was worked through.
DispatchedCalls ==
    SelectSeq(RowsOfQuery, LAMBDA r : r.message_type = "function_call")
DispatchedResults ==
    SelectSeq(RowsOfQuery, LAMBDA r : r.message_type = "function_call_output")

\* C28: when a query has returned its response, the response's tool_results
\* has one entry for every tool call dispatched during the query, in the
\* order of dispatch, holding the call's tool name, its parsed arguments and
\* the result it got; and it is null exactly when no call was dispatched.
C28_ToolResultsListDispatchedCalls ==
    Returned =>
       /\ Len(DispatchedResults) = Len(DispatchedCalls)
       /\ (tool_results = <<>>) <=> (DispatchedCalls = <<>>)
       /\ IF DispatchedCalls = <<>>
          THEN last_return.tool_results = Null
          ELSE last_return.tool_results =
                  [i \in 1..Len(DispatchedCalls) |->
                      [tool |-> DispatchedCalls[i].function_name,
                       arguments |-> JsonLoads(DispatchedCalls[i].content),
                       result |-> JsonLoads(DispatchedResults[i].content)]]

\* A query that dispatched three calls in one batch has returned, after a
\* query that dispatched none.
C28_Witness ==
    /\ Returned
    /\ Len(DispatchedCalls) = 3
    /\ Len(last_return.tool_results) = 3
    /\ last_return.tool_results[1].result.status = "success"
    /\ last_return.tool_results[2].result.status = "error"
    /\ obs.rows_mark = 2

\* ------------------------------------------- the message store on its own

\* The operations of DatabaseManager called in any order, as the
\* conversation endpoints of api.py call them.  Here a row carries the two
\* columns the queries of this section sort by, id and timestamp, which no
\* step of a query reads.
MaxConversations == 2
MaxRows == 3
MaxClock == 1

\* sqlite3.connect gives a connection with foreign key enforcement off, and
\* _get_connection issues no PRAGMA foreign_keys = ON.
ForeignKeys == FALSE

\* The messages saved in this section.
StoreMessages ==
    {UserMessage("What is the average price?"),
     [type |-> "message", role |-> "assistant",
      content |-> Text("The average price is 101.5")]}

\* save_message: the row inserted, its id one more than the largest id in
\* the table and its timestamp CURRENT_TIMESTAMP, the wall clock in whole
\* seconds, read as now.
SaveMessageAt(rows, cid, message, now) ==
    LET row == MessageRow(cid, message)
    IN  Append(rows, [k \in DOMAIN row \cup {"id", "timestamp"} |->
                         CASE k = "id" -> Len(rows) + 1
                           [] k = "timestamp" -> now
                           [] OTHER -> row[k]])

\* ORDER BY timestamp: the rows in an order in which no row comes before a
\* row with a smaller timestamp.  SQL leaves the order of rows with equal
\* timestamps open, so every such order is a result the query may give.
OrderedByTimestamp(rows) ==
    {listing \in {[i \in 1..Len(rows) |-> rows[p[i]]] :
                     p \in Permutations(1..Len(rows))} :
        \A i, j \in 1..Len(listing) :
           i < j => listing[i].timestamp <= listing[j].timestamp}

\* DatabaseManager.get_messages_for_conversation: the results it may give.
GetMessagesForConversation(rows, cid) == OrderedByTimestamp(GetMessages(rows, cid))

\* DELETE FROM conversations WHERE id = ?: the message rows afterwards.  The
\* ON DELETE CASCADE of the schema acts only under foreign key enforcement.
RowsAfterDelete(rows, cid) ==
    IF ForeignKeys THEN SelectSeq(rows, LAMBDA r : r.conversation_id # cid)
    ELSE rows

StoreFrame ==
    UNCHANGED <<agent, data, data_file, messages, script_file,
                requirements_file, temp_dirs, pc, conversation_id,
                agent_response, tool_call_count, tool_results, batch_pos,
                args, run, responder, obs>>

CreateConversation ==
    /\ CreateConversationId(conversations) <= MaxConversations
    /\ conversations' = conversations \cup {CreateConversationId(conversations)}
    /\ last_return' = [created |-> CreateConversationId(conversations)]
    /\ UNCHANGED message_rows
    /\ StoreFrame

SaveMessageCall(cid, message, now) ==
    /\ Len(message_rows) < MaxRows
    /\ cid \in conversations
    /\ message_rows' = SaveMessageAt(message_rows, cid, message, now)
    /\ last_return' = [saved |-> Len(message_rows) + 1]
    /\ UNCHANGED conversations
    /\ StoreFrame

\* DatabaseManager.delete_conversation: the conversation's row is deleted
\* and the call returns whether there was one.
DeleteConversation(cid) ==
    /\ conversations' = conversations \ {cid}
    /\ message_rows' = IF cid \in conversations
                       THEN RowsAfterDelete(message_rows, cid)
                       ELSE message_rows
    /\ last_return' = [deleted |-> cid \in conversations, conversation_id |-> cid]
    /\ StoreFrame

GetMessagesCall(cid) ==
    /\ last_return' = [listing |-> "get_messages", conversation_id |-> cid,
                       messages |-> GetMessages(message_rows, cid)]
    /\ UNCHANGED <<conversations, message_rows>>
    /\ StoreFrame

GetMessagesForConversationCall(cid) ==
    /\ \E listing \in GetMessagesForConversation(message_rows, cid) :
          last_return' = [listing |-> "get_messages_for_conversation",
                          conversation_id |-> cid, messages |-> listing]
    /\ UNCHANGED <<conversations, message_rows>>
    /\ StoreFrame

\* now is what the wall clock reads at the save; the clock can be set, so it
\* need not grow from one save to the next.
NextStore ==
    \/ CreateConversation
    \/ \E cid \in 1..MaxConversations, message \in StoreMessages, now \in 0..MaxClock :
          SaveMessageCall(cid, message, now)
    \/ \E cid \in 1..MaxConversations : DeleteConversation(cid)
    \/ \E cid \in 1..MaxConversations : GetMessagesCall(cid)
    \/ \E cid \in 1..MaxConversations : GetMessagesForConversationCall(cid)

SpecStore == Init /\ [][NextStore]_vars

\* C29: after delete_conversation has returned true for a conversation, no
\* message row with that conversation's id is left in the store.
C29_DeleteRemovesMessages ==
    [][("deleted" \in DOMAIN last_return' /\ last_return'.deleted) =>
          \A i \in 1..Len(message_rows') :
             message_rows'[i].conversation_id # last_return'.conversation_id]_vars

\* The rows of a conversation in the order in which they were saved.
SavedOrder(cid) == SelectSeq(message_rows, LAMBDA r : r.conversation_id = cid)

\* C30: what either listing returns for a conversation is the conversation's
\* rows in the order in which they were saved, whatever their timestamps.
C30_ListingsInSavedOrder ==
    "listing" \in DOMAIN last_return =>
       last_return.messages = SavedOrder(last_return.conversation_id)

\* The listing that orders by id does return the saved order.
C30_GetMessagesInSavedOrder ==
    ("listing" \in DOMAIN last_return /\ last_return.listing = "get_messages") =>
       last_return.messages = SavedOrder(last_return.conversation_id)

\* The loop was left with the last response still asking for a tool call.
CutShort == agent_response.needs_tool_call

\* C31: when a query has returned, the limit warning was logged exactly if
\* the loop was cut short by the bound, the last response still asking for a
\* tool call; and a query that was cut short returns that response's text.
C31_LimitLoggedIffCutShort ==
    Returned =>
       /\ obs.limit_logged <=> CutShort
       /\ CutShort => last_return.response = LastResponseText

\* The step on which the sandbox ends a run_script call in failure: the
\* installer exited with a non-zero code, or the script did.
SandboxFailure ==
    /\ pc \in {"pip_install", "run_script"}
    /\ LeavesSandbox
    /\ DispatchedResult.status = "error"

\* What the step appended to the messages sent to the model.
FedBack == messages'[Len(messages')].output.repr

\* The installer's or the script's stderr is in the result as captured.
StderrKept(result) ==
    IF pc = "pip_install"
    THEN result.message = "Failed to install required packages: " \o PIP_STDERR
    ELSE /\ result.execution_result.output = SCRIPT_STDERR
         /\ result.message = "Script execution failed: " \o SCRIPT_STDERR

\* C32: when a run_script call fails in the sandbox, what is fed back to
\* the model has a status and a message and nothing else, and the result
\* returned to the caller holds the stderr as captured.
C32_FailureTerseForModel ==
    [][SandboxFailure =>
          /\ DOMAIN FedBack \subseteq {"status", "message"}
          /\ StderrKept(DispatchedResult)]_vars

\* C32, amended: when a run_script call fails in the sandbox, what is fed
\* back to the model is the whole result that is returned to the caller,
\* script source and nested execution result included, and the stderr is in
\* it as captured.
C32_FailureFedBackInFull ==
    [][SandboxFailure =>
          /\ FedBack = DispatchedResult
          /\ {"script", "execution_result"} \subseteq DOMAIN FedBack
          /\ StderrKept(DispatchedResult)
          /\ StderrKept(FedBack)]_vars

\* A script has exited with a non-zero code and the model is about to be
\* sent the result with the script's stderr in it.
C32_Witness ==
    /\ obs.spawned
    /\ obs.returncode # 0
    /\ pc \in {"for", "handle_tool_response"}
    /\ tool_results # <<>>
    /\ tool_results[Len(tool_results)].result.status = "error"
    /\ messages[Len(messages)].output.repr.execution_result.output = SCRIPT_STDERR

\* The response does not start with a declaration line and has the text
\* PACKAGES: further down.
MentionedBelow ==
    /\ ~run.input.declared
    /\ Find(run.input.output_text, "PACKAGES:") > 1

\* C33: for a response that does not start with a declaration line but has
\* PACKAGES: further down, generate_script returns the default packages and
\* the whole text as the source; and when the response starts with a
\* declaration line, the source returned has no PACKAGES: in it.
C33_DeclarationOnlyWhenLeading ==
    SynthReturned =>
       /\ MentionedBelow =>
             /\ run.script_info.packages = DefaultPackages
             /\ run.script_info.script = run.input.output_text
       /\ run.input.declared => Find(run.script_info.script, "PACKAGES:") = 0

\* The first half of C33 alone.
C33_MentionIsNoDeclaration ==
    (SynthReturned /\ MentionedBelow) =>
       /\ run.script_info.packages = DefaultPackages
       /\ run.script_info.script = run.input.output_text

\* ----------------------------------- one model output, streamed and whole

\* process_user_input and handle_tool_response read the model's answer in
\* one of two ways: as the events of a stream, or as one response object.
\* Here both are applied to the same output.  Arguments are the raw text
\* the model wrote, which arrives in fragments when streamed.
MaxItems == 3

\* The items a model output is made of: text messages, and function calls
\* whose arguments come in one or two fragments.
ItemKinds ==
    {[type |-> "message", text |-> "Let me check. "],
     [type |-> "message", text |-> "One dataset is available."],
     [type |-> "function_call", name |-> "get_dataset_list", fragments |-> <<"{}">>],
     [type |-> "function_call", name |-> "load_dataset",
      fragments |-> <<"{\"filename\": ", "\"prices.csv\"}">>]}
ModelOutputs == UNION {[1..k -> ItemKinds] : k \in 1..MaxItems}

\* The output as one response object.  Its output_text is the client
\* library's property: the texts of all message items, joined.
Envelope(output) ==
    LET texts == SelectSeq(output, LAMBDA item : item.type = "message")
    IN  [usage |-> [total_tokens |-> "1234"],
         output_text |-> Join([i \in 1..Len(texts) |-> texts[i].text]),
         output |-> [i \in 1..Len(output) |->
                       IF output[i].type = "message"
                       THEN OutputMessage(output[i].text)
                       ELSE FunctionCall(i, output[i].name, Join(output[i].fragments))]]

\* The output as the events of a stream: for every item, in order, the
\* event that adds it (a function call still without arguments), then the
\* finished text of a message or the fragments of a call's arguments.
ItemEvents(i, item) ==
    IF item.type = "message"
    THEN <<[type |-> "response.output_item.added", output_index |-> i - 1,
            item |-> OutputMessage("")],
           [type |-> "response.output_text.done", output_index |-> i - 1,
            text |-> item.text]>>
    ELSE <<[type |-> "response.output_item.added", output_index |-> i - 1,
            item |-> FunctionCall(i, item.name, "")]>>
         \o [j \in 1..Len(item.fragments) |->
               [type |-> "response.function_call_arguments.delta",
                output_index |-> i - 1, delta |-> item.fragments[j]]]

RECURSIVE EventsFrom(_, _)
EventsFrom(output, i) ==
    IF i > Len(output) THEN <<>>
    ELSE ItemEvents(i, output[i]) \o EventsFrom(output, i + 1)
StreamEvents(output) == EventsFrom(output, 1)

\* The body of the loop over the events, agent.py lines 74-91 and 160-177:
\* a finished text replaces output_text, an added item is entered in
\* final_tool_calls under its output index, an argument fragment is
\* appended to the arguments of the item entered under its index.
\* final_tool_calls is a dict; it is kept here in its insertion order.
OnEvent(event, acc) ==
    CASE event.type = "response.output_text.done" ->
           [acc EXCEPT !.output_text = event.text]
      [] event.type = "response.output_item.added" ->
           [acc EXCEPT !.final_tool_calls =
               Append(@, [index |-> event.output_index, item |-> event.item])]
      [] event.type = "response.function_call_arguments.delta" ->
           [acc EXCEPT !.final_tool_calls =
               [k \in DOMAIN @ |->
                  IF @[k].index = event.output_index
                  THEN [@[k] EXCEPT !.item.arguments = @ \o event.delta]
                  ELSE @[k]]]
      [] OTHER -> acc

RECURSIVE Consume(_, _)
Consume(events, acc) ==
    IF events = <<>> THEN acc
    ELSE Consume(Tail(events), OnEvent(Head(events), acc))

\* What process_user_input returns for a stream, lines 73-124.  The stream
\* object has no usage attribute, so token_usage is None.
StreamedResponse(events) ==
    LET acc == Consume(events, [final_tool_calls |-> <<>>, output_text |-> ""])
        items == [k \in DOMAIN acc.final_tool_calls |-> acc.final_tool_calls[k].item]
    IN  [final_tool_calls |-> items,
         needs_tool_call |-> \E k \in DOMAIN items : items[k].type = "function_call",
         output_text |-> acc.output_text,
         token_usage |-> Null]

InitStream ==
    /\ agent = TRUE
    /\ data = None
    /\ data_file = None
    /\ messages = <<>>
    /\ conversations = {}
    /\ message_rows = <<>>
    /\ script_file = NoFile
    /\ requirements_file = NoFile
    /\ temp_dirs = {}
    /\ pc = "responses_create"
    /\ conversation_id = NoConversation
    /\ agent_response = NoResponse
    /\ tool_call_count = 0
    /\ tool_results = <<>>
    /\ batch_pos = 0
    /\ args = NoArgs
    /\ \E output \in ModelOutputs : run = [active |-> TRUE, output |-> output]
    /\ responder = <<>>
    /\ last_return = [status_code |-> 0]
    /\ obs = [n_queries |-> 0, n_requests |-> 0, n_calls |-> 0, n_dirs |-> 0,
              always_tools |-> FALSE, failed_at |-> 0, dispatched_at_failure |-> 0,
              fault |-> "none", rows_mark |-> 0, msgs_mark |-> 0,
              synth_requests |-> 0, installs |-> 0, install_failed |-> FALSE,
              spawns |-> 0, spawned |-> FALSE, execution_result |-> Null,
              limit_logged |-> FALSE, returncode |-> 0, stdout |-> "",
              venvs |-> <<>>, stale |-> {}]

\* The same output is read once with stream=True and once with
\* stream=False, and the two return values are kept side by side.
ProcessBothWays ==
    /\ pc = "responses_create"
    /\ "output" \in DOMAIN run
    /\ run' = [active |-> TRUE, output |-> run.output,
               streamed |-> StreamedResponse(StreamEvents(run.output)),
               whole |-> AgentResponse(Envelope(run.output))]
    /\ pc' = "responses_returned"
    /\ obs' = [obs EXCEPT !.n_requests = @ + 2]
    /\ UNCHANGED <<agent, data, data_file, messages, conversations, message_rows,
                   script_file, requirements_file, temp_dirs, conversation_id,
                   agent_response, tool_call_count, tool_results, batch_pos,
                   args, responder, last_return>>

NextStream == ProcessBothWays

SpecStream == InitStream /\ [][NextStream]_vars

BothReturned == pc = "responses_returned"

\* The function calls of a return value, in order.
FunctionCalls(response) ==
    SelectSeq(response.final_tool_calls, LAMBDA item : item.type = "function_call")

SameCalls ==
    BothReturned => FunctionCalls(run.streamed) = FunctionCalls(run.whole)
SameFlag ==
    BothReturned => run.streamed.needs_tool_call = run.whole.needs_tool_call
SameText ==
    BothReturned => run.streamed.output_text = run.whole.output_text

\* C34: for one model output read as a stream and read as one response
\* object, the agent returns the same text, the same needs_tool_call flag
\* and the same function calls in the same order, the arguments of a
\* streamed call being its fragments joined in the order they arrived.
C34_StreamEqualsEnvelope == SameText /\ SameFlag /\ SameCalls

\* ------------------------------------- the executor in persistent mode

\* execute_script_in_persistent_venv, which nothing in the repository
\* calls, called some times in a row.  temp_dirs is here the set of
\* environment directories that exist, obs.venvs the directories
\* venv.create was called for, in order, and last_return the value the
\* call returned.
MaxPersistentCalls == 3

\* venv_dir as the caller gives it; without one it is script_venv next to
\* the script (lines 294-296).
SCRIPT_VENV == "generated_scripts/script_venv"
VenvDirs == {None, "/opt/analysis_venv"}
VenvDir(venv_dir) == IF venv_dir = None THEN SCRIPT_VENV ELSE venv_dir

\* An executor that never finds the environment.
VenvExists_Never(dirs, venv_dir) == FALSE

\* os.path.exists(venv_dir)
VenvExists(dirs, venv_dir) == venv_dir \in dirs

PersistentFrame ==
    UNCHANGED <<agent, data, data_file, messages, conversations, message_rows,
                script_file, requirements_file, conversation_id,
                agent_response, tool_call_count, tool_results, batch_pos,
                args, responder>>

InitPersistent ==
    /\ agent = TRUE
    /\ data = ReadCsv("datasets/prices.csv")
    /\ data_file = "prices.csv"
    /\ messages = <<>>
    /\ conversations = {}
    /\ message_rows = <<>>
    /\ script_file = File(<<"print(result)">>)
    /\ requirements_file = File(<<"pandas">>)
    /\ temp_dirs = {}
    /\ pc = "idle"
    /\ conversation_id = NoConversation
    /\ agent_response = NoResponse
    /\ tool_call_count = 0
    /\ tool_results = <<>>
    /\ batch_pos = 0
    /\ args = NoArgs
    /\ run = NoRun
    /\ responder = <<>>
    /\ last_return = [status_code |-> 0]
    /\ obs = [n_queries |-> 0, n_requests |-> 0, n_calls |-> 0, n_dirs |-> 0,
              always_tools |-> FALSE, failed_at |-> 0, dispatched_at_failure |-> 0,
              fault |-> "none", rows_mark |-> 0, msgs_mark |-> 0,
              synth_requests |-> 0, installs |-> 0, install_failed |-> FALSE,
              spawns |-> 0, spawned |-> FALSE, execution_result |-> Null,
              limit_logged |-> FALSE, returncode |-> 0, stdout |-> "",
              venvs |-> <<>>, stale |-> {}]

\* The call, lines 285-296.
PersistentCall(venv_dir) ==
    /\ pc = "idle"
    /\ obs.n_queries < MaxPersistentCalls
    /\ run' = [active |-> TRUE, venv_dir |-> VenvDir(venv_dir)]
    /\ pc' = "persistent_venv"
    /\ obs' = [obs EXCEPT !.n_queries = @ + 1]
    /\ UNCHANGED <<temp_dirs, last_return>>
    /\ PersistentFrame

\* Lines 300-304: venv.create is called only if the directory is not
\* there.  It succeeds, or it raises and the call returns through the
\* last except clause; what it had made of the directory by then may be
\* left behind.
PersistentVenv(ok, left) ==
    /\ pc = "persistent_venv"
    /\ IF VenvExists(temp_dirs, run.venv_dir)
       THEN /\ pc' = "persistent_pip"
            /\ UNCHANGED <<temp_dirs, run, last_return, obs>>
       ELSE /\ obs' = [obs EXCEPT !.venvs = Append(@, run.venv_dir)]
            /\ IF ok
               THEN /\ temp_dirs' = temp_dirs \cup {run.venv_dir}
                    /\ pc' = "persistent_pip"
                    /\ UNCHANGED <<run, last_return>>
               ELSE /\ temp_dirs' = IF left THEN temp_dirs \cup {run.venv_dir}
                                    ELSE temp_dirs
                    /\ last_return' = ExecuteFailed(VENV_ERROR)
                    /\ run' = NoRun
                    /\ pc' = "idle"
    /\ PersistentFrame

\* Lines 313-318: the installer, with check=True.
PersistentPip(returncode) ==
    /\ pc = "persistent_pip"
    /\ IF InstallRaises(returncode)
       THEN /\ last_return' = InstallFailed(PIP_STDERR)
            /\ run' = NoRun
            /\ pc' = "idle"
       ELSE /\ pc' = "persistent_run"
            /\ UNCHANGED <<run, last_return>>
    /\ obs' = [obs EXCEPT !.installs = @ + 1]
    /\ UNCHANGED temp_dirs
    /\ PersistentFrame

\* Lines 321-339: the script is run and the call returns.
PersistentRun(returncode, stdout) ==
    /\ pc = "persistent_run"
    /\ last_return' = ExecutionResult(returncode, stdout, SCRIPT_STDERR)
    /\ run' = NoRun
    /\ pc' = "idle"
    /\ obs' = [obs EXCEPT !.spawns = @ + 1]
    /\ UNCHANGED temp_dirs
    /\ PersistentFrame

NextPersistent ==
    \/ \E venv_dir \in VenvDirs : PersistentCall(venv_dir)
    \/ \E ok \in BOOLEAN, left \in BOOLEAN : PersistentVenv(ok, left)
    \/ \E returncode \in {0, 1} : PersistentPip(returncode)
    \/ \E returncode \in {0, 1}, stdout \in ScriptStdouts :
          PersistentRun(returncode, stdout)

SpecPersistent == InitPersistent /\ [][NextPersistent]_vars

\* C35: in persistent mode venv.create is called for the directory only on
\* a call that does not find it; a call that finds it goes on to the
\* installer with the directory as it is; and no step, whichever way the
\* call ends, removes a directory that exists.
C35_PersistentEnvironmentReused ==
    [][/\ obs'.venvs # obs.venvs =>
             /\ run.venv_dir \notin temp_dirs
             /\ obs'.venvs = Append(obs.venvs, run.venv_dir)
       /\ (pc = "persistent_venv" /\ run.venv_dir \in temp_dirs) =>
             /\ obs'.venvs = obs.venvs
             /\ pc' = "persistent_pip"
       /\ temp_dirs \subseteq temp_dirs']_vars

\* Three calls with the same directory have returned: one ended in an
\* install failure, two ran the script, and the last one succeeded; the
\* environment was created once and is still there.
C35_Witness ==
    /\ pc = "idle"
    /\ obs.n_queries = 3
    /\ obs.installs = 3
    /\ obs.spawns = 2
    /\ obs.venvs = <<SCRIPT_VENV>>
    /\ temp_dirs = {SCRIPT_VENV}
    /\ last_return.status = "success"

\* The step on which get_agent reloads an existing conversation for a
\* follow-up query.
Reload ==
    /\ pc = "idle"
    /\ pc' = "query_agent"
    /\ conversation_id' # NoConversation

\* The turns stored for the conversation being reloaded.
StoredTurns ==
    LET stored == GetMessages(message_rows, conversation_id')
    IN  [i \in 1..Len(stored) |-> TurnOfRow(stored[i])]

\* The reloaded messages are the stored turns of the conversation, all of
\* them and in order, tool calls and tool results included.
ReloadHasEveryTurn ==
    [][Reload =>
          [i \in 1..Len(messages') |-> TurnOfMessage(messages'[i])] = StoredTurns]_vars

\* Reloading the conversation whose query has just returned gives the
\* message list the agent held at that moment.
ReloadIsWhatAgentHeld ==
    [][(Reload /\ Returned /\ agent /\ last_return.conversation_id = conversation_id')
          => messages' = messages]_vars

\* C36: a follow-up query in an existing conversation starts from every
\* turn the earlier queries persisted, in order (user and assistant
\* messages, tool calls, tool results), and the reloaded list is the list
\* the agent held when the previous query ended.
C36_ReloadRestoresHistory ==
    [][Reload =>
          /\ [i \in 1..Len(messages') |-> TurnOfMessage(messages'[i])] = StoredTurns
          /\ (Returned /\ agent /\ last_return.conversation_id = conversation_id')
                => messages' = messages]_vars

\* C37: a conversation that has just been created has no messages: both
\* listings of it are empty, also when an earlier conversation with
\* messages was deleted before.
C37_NewConversationIsEmpty ==
    [][("created" \in DOMAIN last_return' /\ conversations' # conversations) =>
          /\ GetMessages(message_rows', last_return'.created) = <<>>
          /\ GetMessagesForConversation(message_rows', last_return'.created) = {<<>>}]_vars

\* -------------------------------- queries between conversation deletions

\* The conversation endpoints called between queries.  obs.stale holds the
\* positions of the message rows whose conversation has been deleted.

\* create_conversation of api.py: the store's create_conversation and its
\* id in the response.
CreateConversationEndpoint ==
    /\ pc = "idle"
    /\ CreateConversationId(conversations) <= MaxConversations
    /\ conversations' = conversations \cup {CreateConversationId(conversations)}
    /\ last_return' = [conversation_id |-> CreateConversationId(conversations),
                       status |-> "success"]
    /\ UNCHANGED <<agent, data, data_file, messages, message_rows, script_file,
                   requirements_file, temp_dirs, pc, conversation_id,
                   agent_response, tool_call_count, tool_results, batch_pos,
                   args, run, responder, obs>>

\* delete_conversation of api.py: 404 when the store deleted nothing.
DeleteConversationEndpoint(cid) ==
    /\ pc = "idle"
    /\ conversations' = conversations \ {cid}
    /\ IF cid \in conversations
       THEN /\ message_rows' = RowsAfterDelete(message_rows, cid)
            /\ last_return' = [status |-> "success"]
            /\ obs' = [obs EXCEPT !.stale =
                          @ \cup {i \in 1..Len(message_rows') :
                                    message_rows'[i].conversation_id = cid}]
       ELSE /\ last_return' = Http(404)
            /\ UNCHANGED <<message_rows, obs>>
    /\ UNCHANGED <<agent, data, data_file, messages, script_file,
                   requirements_file, temp_dirs, pc, conversation_id,
                   agent_response, tool_call_count, tool_results, batch_pos,
                   args, run, responder>>

NextDeleting ==
    \/ Next
    \/ CreateConversationEndpoint
    \/ \E cid \in 1..MaxConversations : DeleteConversationEndpoint(cid)

SpecDeleting == Init /\ [][NextDeleting]_vars

\* The first n message rows without those of deleted conversations.
RECURSIVE FreshRows(_, _)
FreshRows(rows, n) ==
    IF n = 0 THEN <<>>
    ELSE IF n \in obs.stale THEN FreshRows(rows, n - 1)
         ELSE Append(FreshRows(rows, n - 1), rows[n])

\* A request to the model is about to be sent.
AtRequest == pc \in {"process_user_input", "handle_tool_response"}

\* The messages the agent held when the query's own turns began.
CarriedOver == SubSeq(messages, 1, obs.msgs_mark)

\* The messages stored, before the query, by this conversation since it was
\* created.
OwnHistory ==
    GetMessagesForOpenai(FreshRows(message_rows, obs.rows_mark), conversation_id)

\* C38: when queries are processed one after another, what a request for a
\* query in conversation C carries besides the query's own turns is C's
\* stored history, nothing for a new conversation, and no turn of another
\* conversation.
C38_OnlyOwnConversation == AtRequest => CarriedOver = OwnHistory

\* The call dispatched last was a load_dataset that returned success.
LoadReturnedSuccess ==
    /\ pc \in {"for", "handle_tool_response"}
    /\ tool_results # <<>>
    /\ tool_results[Len(tool_results)].tool = "load_dataset"
    /\ tool_results[Len(tool_results)].result.status = "success"

\* C39: the dataset and its file name are set together: agent.data is None
\* exactly when agent.data_file is None, and when load_dataset(f) has
\* returned success the file name is f and the dataset is that file's.
C39_DataAndFileSetTogether ==
    /\ data = None <=> data_file = None
    /\ LoadReturnedSuccess =>
          /\ data_file = tool_results[Len(tool_results)].arguments.filename
          /\ data = ReadCsv("datasets/" \o data_file)

\* A load_dataset call of the second request the agent has served has
\* returned success for prices.csv.
C39_Witness ==
    /\ LoadReturnedSuccess
    /\ obs.n_queries = 2
    /\ data_file = "prices.csv"

\* Script synthesis fails: the request raises, or the script that
\* generate_script returns is empty.
SynthesisFails(synth) ==
    synth.failed \/ ParseScript(synth.output_text).script = <<>>

\* The result of the call dispatched last.
LastResult == tool_results[Len(tool_results)].result

\* C40: when script synthesis fails, run_script returns an error result,
\* the sandbox executor is not invoked (no directory is made, nothing is
\* installed or spawned), and the script and requirements files are left as
\* the previous run wrote them.
C40_FailedSynthesisLeavesFiles ==
    [][\A synth \in SynthResponses :
          (SynthesisFails(synth) /\ GenerateScript(synth)) =>
             /\ LastResult' = Error("Failed to generate analysis script.")
             /\ tool_results'[Len(tool_results')].tool = "run_script"
             /\ pc' \in {"for", "handle_tool_response"}
             /\ temp_dirs' = temp_dirs
             /\ obs'.n_dirs = obs.n_dirs
             /\ obs'.installs = obs.installs
             /\ obs'.spawns = obs.spawns
             /\ script_file' = script_file
             /\ requirements_file' = requirements_file]_vars

\* A run_script call has ended in the synthesis error after an earlier call
\* wrote the two files, which are still there.
C40_Witness ==
    /\ pc \in {"for", "handle_tool_response"}
    /\ tool_results # <<>>
    /\ LastResult = Error("Failed to generate analysis script.")
    /\ script_file.exists
    /\ requirements_file.exists
    /\ RunResults # <<>>

====
